---- MODULE Spec2Model ----
\* Verification model of the feature-engineering and model-selection core of
\* the PISA 2018 pipeline: the column resolver and index builder of
\* etapa05_transformacao.py, the model bank and selector of
\* etapa07_descoberta_modelos.py, and the two stages main runs on their
\* output, etapa09_refinamento.py and etapa10_recomendacoes.py.
\*
\* A column name is a sequence of tokens.  A token stands for a run of
\* characters that no other token overlaps ("TC199Q01HA", "_x", "a"), so the
\* prefix relation on token sequences is the prefix relation on the strings.
EXTENDS Integers, Sequences, FiniteSets, TLC

VARIABLES
    \* ---- column resolver, called on its own --------------------------------
    pc_res,             \* position of the caller: "inicio", "uma", "duas"
    colunas_df,         \* argument colunas_df: the actual column names
    codigos_prefixo,    \* argument codigos_prefixo: the ordered prefix list
    nomes_encontrados,  \* result of the first call
    nomes_segunda,      \* result of the second call on the same arguments
    \* ---- stage 5 (transformar_dados) and stage 7 (ajustar_modelo) -----------
    pc,                 \* position of the run: "transformar", "ajustar", "ols", ...
    entrada,            \* the dataset given to transformar_dados
    df,                 \* the dataset handed from stage to stage
    nomes_grupo,        \* transformar_dados: the actual names found for each group
    erro5,              \* how transformar_dados ended: "nenhum", "ok" or the exception
    alvo,               \* ajustar_modelo: the target column name
    X_cols,             \* ajustar_modelo: the feature list
    n_linhas,           \* ajustar_modelo: rows of dados after dropna (-1 before)
    log,                \* the log lines written so far: {<<tipo, mensagem>>}
    disco,              \* the files under resultados/
    retorno,            \* how ajustar_modelo ended: "nenhum", "ok" or the exception
    resultados,         \* ajustar_modelo: the comparison set, in fitting order
    modelo_ols,         \* ajustar_modelo: "None", or how the OLS model was fitted
    tentados,           \* the candidates whose fit was attempted
    falhas,             \* the candidates whose block raised, with the failing step
    capturadas,         \* the except blocks that caught an exception and went on
    \* ---- value normalizer (_mapear_valor), called on its own ---------------
    pc_mapa,            \* position of the caller: "inicio", "feito"
    celula,             \* argument v: the raw cell value
    mapeado,            \* the value returned
    \* ---- the rows of transformar_dados, studied on a small table ----------
    pc_lin,             \* position: "inicio", "feito"
    tabela,             \* the raw answers: respondent -> column -> cell
    calc,               \* the normalized items and the index columns computed
    \* ---- stage 9 (refinar_conhecimento) and stage 10 (gerar_recomendacoes) --
    pc_jus,             \* position of main after stage 7: "etapa9", "etapa10", "fim"
    retorno9,           \* how refinar_conhecimento ended: "nenhum", "ok" or the exception
    fonte9,             \* what the relevant variables were ranked by
    retorno10,          \* how gerar_recomendacoes ended
    tabelas9,           \* the files stages 9 and 10 write under resultados/
    \* ---- the rows of ajustar_modelo, studied on a small table -------------
    pc_dn,              \* position: "preparar", "ajustar", "fim"
    respostas7,         \* the table given: row -> column -> kind of cell
    dados,              \* the rows of dados after the joint dropna
    usados,             \* candidate -> the rows its fit was given
    erro_dn,            \* the exception raised, "nenhum" when none
    \* ---- main: the stages in sequence and the dataset objects --------------
    pc_main,            \* the stage main is about to call (1..11), 12 after the try
    args,               \* the command line and whether stage 11 could be imported
    executadas,         \* the stages called so far, in call order
    levantou,           \* the stage whose exception left the call, 0 when none
    objetos,            \* the DataFrame objects alive: object id -> dataset
    respostas,          \* the object main's variable respostas refers to, 0 before stage 3
    retornado5,         \* the object transformar_dados returned and its dataset then
    log_main            \* the lines main logged, in order

varsRes == <<pc_res, colunas_df, codigos_prefixo, nomes_encontrados, nomes_segunda>>

varsPipe == <<pc, entrada, df, nomes_grupo, erro5, alvo, X_cols, n_linhas, log, disco,
              retorno, resultados, modelo_ols, tentados, falhas, capturadas>>

varsMapa == <<pc_mapa, celula, mapeado>>

\* The variables of the parts studied on their own after the pipeline.
varsLinhas == <<pc_lin, tabela, calc>>

varsJusante == <<pc_jus, retorno9, fonte9, retorno10, tabelas9>>

varsDropna == <<pc_dn, respostas7, dados, usados, erro_dn>>

varsMain == <<pc_main, args, executadas, levantou, objetos, respostas, retornado5,
              log_main>>

varsOutros == <<varsMapa, varsLinhas, varsJusante, varsDropna, varsMain>>

vars == <<varsRes, varsPipe, varsOutros>>

\* ------------------------------------------------------------------ bounds
MaxColunas == 2
MaxPrefixos == 2
\* Largest number of rows left in dados after the rows with a missing target
\* or feature are dropped.
MaxLinhas == 16
\* Largest ordinary value of a metric, and the most candidates that fit in one
\* run of the selection study.
MaxMetrica == 1
MaxAjustados == 2
\* Most blanks before and after the text of a cell.
MaxBrancos == 1
\* Rows of the modelling table whose cells vary, beside the rows that are
\* complete.
MaxIncompletas == 2

\* ------------------------------------------------------------------ strings

\* The tokens that hold upper-case letters and, position by position, their
\* lower-case forms.  Every other token is already lower case.
TokensMaiusculos ==
    <<
       "A", "B", "TC199Q01HA", "TC199Q02HA", "TC199Q03HA", "TC199Q04HA",
       "TC199Q05HA", "TC199Q06HA", "TC199Q07HA", "TC199Q08HA", "TC199Q09HA",
       "TC199Q10HA", "TC199Q11HA", "TC199Q12HA", "TC045Q01NB", "TC045Q02NB",
       "TC045Q03NB", "TC045Q04NB", "TC045Q05NB", "TC045Q06NB", "TC045Q07NB",
       "TC045Q08NB", "TC045Q09NB", "TC045Q10NB", "TC045Q11NB", "TC045Q12NB",
       "TC045Q13NB", "TC045Q14NB", "TC045Q15NB", "TC045Q16HB", "TC045Q17NB",
       "TC028Q01NA", "TC028Q02NA", "TC028Q03NA", "TC028Q04NA", "TC028Q05NA",
       "TC028Q06NA", "TC028Q07NA", "TC028Q08NA", "TC170Q01HA", "TC170Q02HA",
       "TC170Q03HA", "TC170Q04HA", "TC170Q05HA", "TC046Q04NA", "TC046Q05NA",
       "TC046Q06NA", "TC046Q07NA", "TC031Q04NA", "TC031Q11NA", "TC031Q13NA",
       "TC031Q14NA", "TC031Q15NA", "TC031Q18NA", "TC031Q20NA", "TC198Q01HA",
       "TC198Q02HA", "TC198Q03HA", "TC198Q04HA", "TC198Q05HA", "TC198Q06HA",
       "TC198Q07HA", "TC198Q08HA", "TC198Q09HA", "TC198Q10HA", "TC002Q01NA"
    >>
TokensMinusculos ==
    <<
       "a", "b", "tc199q01ha", "tc199q02ha", "tc199q03ha", "tc199q04ha",
       "tc199q05ha", "tc199q06ha", "tc199q07ha", "tc199q08ha", "tc199q09ha",
       "tc199q10ha", "tc199q11ha", "tc199q12ha", "tc045q01nb", "tc045q02nb",
       "tc045q03nb", "tc045q04nb", "tc045q05nb", "tc045q06nb", "tc045q07nb",
       "tc045q08nb", "tc045q09nb", "tc045q10nb", "tc045q11nb", "tc045q12nb",
       "tc045q13nb", "tc045q14nb", "tc045q15nb", "tc045q16hb", "tc045q17nb",
       "tc028q01na", "tc028q02na", "tc028q03na", "tc028q04na", "tc028q05na",
       "tc028q06na", "tc028q07na", "tc028q08na", "tc170q01ha", "tc170q02ha",
       "tc170q03ha", "tc170q04ha", "tc170q05ha", "tc046q04na", "tc046q05na",
       "tc046q06na", "tc046q07na", "tc031q04na", "tc031q11na", "tc031q13na",
       "tc031q14na", "tc031q15na", "tc031q18na", "tc031q20na", "tc198q01ha",
       "tc198q02ha", "tc198q03ha", "tc198q04ha", "tc198q05ha", "tc198q06ha",
       "tc198q07ha", "tc198q08ha", "tc198q09ha", "tc198q10ha", "tc002q01na"
    >>

\* The table as a function from a token to its lower-case form.
MapaMinusculas ==
    [t \in {TokensMaiusculos[i] : i \in 1..Len(TokensMaiusculos)} |->
        TokensMinusculos[CHOOSE i \in 1..Len(TokensMaiusculos) : TokensMaiusculos[i] = t]]

\* str.lower() on one token.
MinusculaToken(t) ==
    IF t \in DOMAIN MapaMinusculas THEN MapaMinusculas[t] ELSE t

\* str.lower() on a name.
Minuscula(nome) == [i \in 1..Len(nome) |-> MinusculaToken(nome[i])]

\* str.startswith(prefixo).
ComecaCom(nome, prefixo) ==
    /\ Len(prefixo) <= Len(nome)
    /\ \A i \in 1..Len(prefixo) : nome[i] = prefixo[i]

\* All sequences over S of length at most n.
SeqAte(S, n) == UNION {[1..k -> S] : k \in 0..n}

\* ---------------------------------------------------------- column resolver

\* Position of key k in the ordered dictionary d (0 when absent).
PosicaoChave(d, k) ==
    IF \E i \in 1..Len(d) : d[i].chave = k
    THEN CHOOSE i \in 1..Len(d) : d[i].chave = k
    ELSE 0

\* d[k] = v on a Python dict: a new key goes to the end, an existing key keeps
\* its position and takes the new value.
DictAtribuir(d, k, v) ==
    LET p == PosicaoChave(d, k)
    IN IF p = 0
       THEN Append(d, [chave |-> k, valor |-> v])
       ELSE [d EXCEPT ![p] = [chave |-> k, valor |-> v]]

RECURSIVE DictMinusculas(_)
\* {col.lower(): col for col in colunas_df}
DictMinusculas(cols) ==
    IF cols = <<>>
    THEN <<>>
    ELSE LET n == Len(cols)
         IN DictAtribuir(DictMinusculas(SubSeq(cols, 1, n - 1)),
                         Minuscula(cols[n]), cols[n])

RECURSIVE FiltrarMatches(_, _)
\* [col for col_lower, col in colunas_df_lower.items()
\*      if col_lower.startswith(codigo_lower)]
FiltrarMatches(d, codigo_lower) ==
    IF d = <<>>
    THEN <<>>
    ELSE LET resto == FiltrarMatches(Tail(d), codigo_lower)
         IN IF ComecaCom(Head(d).chave, codigo_lower)
            THEN <<Head(d).valor>> \o resto
            ELSE resto

\* matches[0]: the entry kept for a prefix.
PrimeiroMatch(matches) == matches[1]

RECURSIVE ResolverPrefixosTodos(_, _)
\* Mutant of ResolverPrefixos: extend(matches) in place of append(matches[0]).
ResolverPrefixosTodos(d, codigos) ==
    IF codigos = <<>>
    THEN <<>>
    ELSE FiltrarMatches(d, Minuscula(Head(codigos)))
             \o ResolverPrefixosTodos(d, Tail(codigos))

RECURSIVE ResolverPrefixos(_, _)
\* The loop over codigos_prefixo: one entry for each prefix that matches.
ResolverPrefixos(d, codigos) ==
    IF codigos = <<>>
    THEN <<>>
    ELSE LET matches == FiltrarMatches(d, Minuscula(Head(codigos)))
             resto == ResolverPrefixos(d, Tail(codigos))
         IN IF matches # <<>>
            THEN <<PrimeiroMatch(matches)>> \o resto
            ELSE resto

\* _encontrar_nomes_reais(colunas_df, codigos_prefixo)
encontrar_nomes_reais(cols, codigos) ==
    ResolverPrefixos(DictMinusculas(cols), codigos)

\* ------------------------------------------- resolver called on its own

\* Column names and prefixes the resolver is exercised on: names that differ
\* only in letter case, names that extend another name, and a name no prefix
\* matches.
NomesTeste == {<<"a">>, <<"A">>, <<"A", "b">>, <<"a", "B">>, <<"z">>}
PrefixosTeste == {<<"A">>, <<"A", "B">>, <<"q">>}

\* A dataset: its column names in order and the columns of numeric dtype.
DatasetVazio == [colunas |-> <<>>, numericas |-> {}]

\* A file of resultados/: where it comes from ("ausente", "anterior" for a file
\* an earlier run left, "execucao" for one this run wrote) and what it holds.
Arquivo(origem, conteudo) == [origem |-> origem, conteudo |-> conteudo]

DiscoVazio ==
    [composicao  |-> Arquivo("ausente", <<>>),
     mapa_ols    |-> Arquivo("ausente", <<>>),
     comparacao  |-> Arquivo("ausente", <<>>),
     melhor_json |-> Arquivo("ausente", <<>>),
     melhor_txt  |-> Arquivo("ausente", <<>>),
     ols_csv     |-> Arquivo("ausente", <<>>),
     joblib      |-> Arquivo("ausente", <<>>)]

\* nomes_<grupo> before the groups are resolved.
NomesVazios ==
    [autoeficacia |-> <<>>, formacao |-> <<>>, carga |-> <<>>, clima |-> <<>>,
     cooperacao |-> <<>>, satisfacao |-> <<>>, satisfacao_neg |-> <<>>]

\* The pipeline variables while no stage runs.
\* A float: a number held in tenths, NaN or infinity.
Num(d) == [tipo |-> "num", decimos |-> d]

NaNf == [tipo |-> "nan", decimos |-> 0]

Infinito == [tipo |-> "inf", decimos |-> 0]

\* A raw cell: a missing value, or a text, or a number.
CelulaAusente == [tipo |-> "na", texto |-> <<>>, valor |-> NaNf]

\* The normalizer variables while _mapear_valor is not called on its own.
MapaParado ==
    /\ pc_mapa = "parado"
    /\ celula = CelulaAusente
    /\ mapeado = NaNf

\* The row variables while no table is studied.
LinhasParadas ==
    /\ pc_lin = "parado"
    /\ tabela = <<>>
    /\ calc = <<>>

\* The files of stages 9 and 10: the two tables of relevant variables and
\* the text of recommendations.
TabelasVazias ==
    [importancia_rf     |-> Arquivo("ausente", <<>>),
     significativas_ols |-> Arquivo("ausente", <<>>),
     recomendacoes      |-> Arquivo("ausente", <<>>)]

\* What refinar_conhecimento ranked the features by: the logic taken and the
\* estimator file it loaded.
Fonte(logica, estimador) == [logica |-> logica, estimador |-> estimador]

FonteNenhuma == Fonte("nenhuma", Arquivo("ausente", <<>>))

\* The downstream variables while main is not followed past stage 7.
JusanteParado ==
    /\ pc_jus = "parado"
    /\ retorno9 = "nenhum"
    /\ fonte9 = FonteNenhuma
    /\ retorno10 = "nenhum"
    /\ tabelas9 = TabelasVazias

\* The row variables of ajustar_modelo while no table is studied.
DropnaParado ==
    /\ pc_dn = "parado"
    /\ respostas7 = <<>>
    /\ dados = {}
    /\ usados = <<>>
    /\ erro_dn = "nenhum"

\* What transformar_dados has returned before it is called.
NadaRetornado == [obj |-> 0, dataset |-> <<>>]

\* The variables of main while main is not followed.
MainParado ==
    /\ pc_main = 0
    /\ args = <<>>
    /\ executadas = <<>>
    /\ levantou = 0
    /\ objetos = <<>>
    /\ respostas = 0
    /\ retornado5 = NadaRetornado
    /\ log_main = <<>>

OutrosParados ==
    MapaParado /\ LinhasParadas /\ JusanteParado /\ DropnaParado /\ MainParado

PipeParado ==
    /\ pc = "parado"
    /\ entrada = DatasetVazio
    /\ df = DatasetVazio
    /\ nomes_grupo = NomesVazios
    /\ erro5 = "nenhum"
    /\ alvo = <<>>
    /\ X_cols = <<>>
    /\ n_linhas = -1
    /\ log = {}
    /\ disco = DiscoVazio
    /\ retorno = "nenhum"
    /\ resultados = <<>>
    /\ modelo_ols = "None"
    /\ tentados = {}
    /\ falhas = {}
    /\ capturadas = {}

\* The resolver variables while the resolver is not called on its own.
ResParado ==
    /\ pc_res = "parado"
    /\ colunas_df = <<>>
    /\ codigos_prefixo = <<>>
    /\ nomes_encontrados = <<>>
    /\ nomes_segunda = <<>>

InitRes ==
    /\ PipeParado
    /\ OutrosParados
    /\ pc_res = "inicio"
    /\ colunas_df \in SeqAte(NomesTeste, MaxColunas)
    /\ codigos_prefixo \in SeqAte(PrefixosTeste, MaxPrefixos)
    /\ nomes_encontrados = <<>>
    /\ nomes_segunda = <<>>

\* First call.  The function builds fresh lists and leaves its arguments alone.
Resolver ==
    /\ pc_res = "inicio"
    /\ nomes_encontrados' = encontrar_nomes_reais(colunas_df, codigos_prefixo)
    /\ pc_res' = "uma"
    /\ UNCHANGED <<colunas_df, codigos_prefixo, nomes_segunda, varsPipe, varsOutros>>

\* Second call on the same arguments.
ResolverDeNovo ==
    /\ pc_res = "uma"
    /\ nomes_segunda' = encontrar_nomes_reais(colunas_df, codigos_prefixo)
    /\ pc_res' = "duas"
    /\ UNCHANGED <<colunas_df, codigos_prefixo, nomes_encontrados, varsPipe, varsOutros>>

NextRes == Resolver \/ ResolverDeNovo

SpecRes == InitRes /\ [][NextRes]_vars

\* ---- claims about the resolver

\* Column col matches prefix p: its lowercased form starts with the lowercased
\* prefix.
Casa(col, p) == ComecaCom(Minuscula(col), Minuscula(p))

\* Positions of the prefixes that some actual column matches.
PrefixosComMatch ==
    {j \in 1..Len(codigos_prefixo) :
        \E i \in 1..Len(colunas_df) : Casa(colunas_df[i], codigos_prefixo[j])}

\* The k-th smallest element of a finite set of naturals.
Kesimo(S, k) == CHOOSE x \in S : Cardinality({y \in S : y < x}) = k - 1

\* C9: the result holds only actual column names that match one of the
\* prefixes, has exactly one entry for each prefix that some column matches (in
\* prefix order) and none for the others, so it is never longer than the prefix
\* list and is empty when nothing matches; a second resolution of the same
\* arguments gives the same result.
ResolverContrato ==
    /\ pc_res \in {"uma", "duas"} =>
          /\ Len(nomes_encontrados) = Cardinality(PrefixosComMatch)
          /\ Len(nomes_encontrados) <= Len(codigos_prefixo)
          /\ \A k \in 1..Len(nomes_encontrados) :
                /\ \E i \in 1..Len(colunas_df) : colunas_df[i] = nomes_encontrados[k]
                /\ Casa(nomes_encontrados[k], codigos_prefixo[Kesimo(PrefixosComMatch, k)])
    /\ pc_res = "duas" => nomes_segunda = nomes_encontrados

\* Witness of C9: two prefixes, one skipped and one matched by two columns, and
\* both calls made.
ResolverContratoWitness ==
    /\ pc_res = "duas"
    /\ Len(codigos_prefixo) = 2
    /\ Len(colunas_df) = 2
    /\ Len(nomes_encontrados) = 1
    /\ \A i \in 1..2 : Casa(colunas_df[i], codigos_prefixo[Kesimo(PrefixosComMatch, 1)])

\* The first column, in the dataset's column order, that matches prefix p.
PrimeiraColunaQueCasa(cols, p) ==
    cols[CHOOSE i \in 1..Len(cols) :
            /\ Casa(cols[i], p)
            /\ \A j \in 1..(i - 1) : ~Casa(cols[j], p)]

\* C10: the entry kept for a prefix is the first matching actual column in the
\* dataset's column order, also when names differ only in letter case.
ResolverPrimeiroNaOrdem ==
    pc_res = "uma" =>
        \A k \in 1..Len(nomes_encontrados) :
            nomes_encontrados[k] =
                PrimeiraColunaQueCasa(colunas_df,
                                      codigos_prefixo[Kesimo(PrefixosComMatch, k)])

\* ------------------------------------------------- stage 5: index builder

\* Target (Y): self-efficacy, block TC199.
colunas_autoeficacia_codigos ==
    <<
       <<"TC199Q01HA">>, <<"TC199Q02HA">>, <<"TC199Q03HA">>,
       <<"TC199Q04HA">>, <<"TC199Q05HA">>, <<"TC199Q06HA">>,
       <<"TC199Q07HA">>, <<"TC199Q08HA">>, <<"TC199Q09HA">>,
       <<"TC199Q10HA">>, <<"TC199Q11HA">>, <<"TC199Q12HA">>
    >>

\* Predictor: professional development, block TC045.
colunas_formacao_codigos ==
    <<
       <<"TC045Q01NB">>, <<"TC045Q02NB">>, <<"TC045Q03NB">>,
       <<"TC045Q04NB">>, <<"TC045Q05NB">>, <<"TC045Q06NB">>,
       <<"TC045Q07NB">>, <<"TC045Q08NB">>, <<"TC045Q09NB">>,
       <<"TC045Q10NB">>, <<"TC045Q11NB">>, <<"TC045Q12NB">>,
       <<"TC045Q13NB">>, <<"TC045Q14NB">>, <<"TC045Q15NB">>,
       <<"TC045Q16HB">>, <<"TC045Q17NB">>
    >>

\* Predictor: obstacles / workload, block TC028.
colunas_carga_codigos ==
    <<
       <<"TC028Q01NA">>, <<"TC028Q02NA">>, <<"TC028Q03NA">>,
       <<"TC028Q04NA">>, <<"TC028Q05NA">>, <<"TC028Q06NA">>,
       <<"TC028Q07NA">>, <<"TC028Q08NA">>
    >>

\* Predictor: disciplinary climate, block TC170.
colunas_clima_codigos ==
    <<
       <<"TC170Q01HA">>, <<"TC170Q02HA">>, <<"TC170Q03HA">>,
       <<"TC170Q04HA">>, <<"TC170Q05HA">>
    >>

\* Predictor: teacher cooperation, blocks TC046 and TC031.
colunas_cooperacao_codigos ==
    <<
       <<"TC046Q04NA">>, <<"TC046Q05NA">>, <<"TC046Q06NA">>,
       <<"TC046Q07NA">>, <<"TC031Q04NA">>, <<"TC031Q11NA">>,
       <<"TC031Q13NA">>, <<"TC031Q14NA">>, <<"TC031Q15NA">>,
       <<"TC031Q18NA">>, <<"TC031Q20NA">>
    >>

\* Predictor: job satisfaction, block TC198.
colunas_satisfacao_codigos ==
    <<
       <<"TC198Q01HA">>, <<"TC198Q02HA">>, <<"TC198Q03HA">>,
       <<"TC198Q04HA">>, <<"TC198Q05HA">>, <<"TC198Q06HA">>,
       <<"TC198Q07HA">>, <<"TC198Q08HA">>, <<"TC198Q09HA">>, <<"TC198Q10HA">>
    >>

\* The negatively worded satisfaction items.
colunas_satisfacao_negativas ==
    <<
       <<"TC198Q03HA">>, <<"TC198Q04HA">>, <<"TC198Q06HA">>
    >>

\* The engineered column names.
IndiceAlvo == <<"indice_autoeficacia">>
IndiceAlvoNorm == <<"indice_autoeficacia_norm">>
IndiceFormacao == <<"formacao_continuada_soma">>
IndiceCarga == <<"carga_trabalho_media">>
IndiceClima == <<"clima_media">>
IndiceCooperacao == <<"cooperacao_media">>
IndiceSatisfacao == <<"satisfacao_media">>

\* The elements of a sequence.
Elementos(seq) == {seq[i] : i \in 1..Len(seq)}

\* df[nome] = ... : a new column goes to the end, an existing one is replaced
\* in place.
AtribuirColuna(cols, nome) ==
    IF nome \in Elementos(cols) THEN cols ELSE Append(cols, nome)

\* Step 2 of transformar_dados: the actual names of each group.
NomesReais(cols) ==
    [autoeficacia   |-> encontrar_nomes_reais(cols, colunas_autoeficacia_codigos),
     formacao       |-> encontrar_nomes_reais(cols, colunas_formacao_codigos),
     carga          |-> encontrar_nomes_reais(cols, colunas_carga_codigos),
     clima          |-> encontrar_nomes_reais(cols, colunas_clima_codigos),
     cooperacao     |-> encontrar_nomes_reais(cols, colunas_cooperacao_codigos),
     satisfacao     |-> encontrar_nomes_reais(cols, colunas_satisfacao_codigos),
     satisfacao_neg |-> encontrar_nomes_reais(cols, colunas_satisfacao_negativas)]

\* colunas_para_mapear
ColunasParaMapear(nomes) ==
    Elementos(nomes.autoeficacia) \cup Elementos(nomes.formacao)
        \cup Elementos(nomes.carga) \cup Elementos(nomes.clima)
        \cup Elementos(nomes.cooperacao) \cup Elementos(nomes.satisfacao)

\* The engineered indices in the order step 4 builds them, each with its group
\* and the log type used when the group is empty.
IndicesPasso4 ==
    <<[indice |-> IndiceAlvo,       grupo |-> "autoeficacia", falta |-> "erro"],
      [indice |-> IndiceFormacao,   grupo |-> "formacao",     falta |-> "aviso"],
      [indice |-> IndiceCarga,      grupo |-> "carga",        falta |-> "aviso"],
      [indice |-> IndiceClima,      grupo |-> "clima",        falta |-> "aviso"],
      [indice |-> IndiceCooperacao, grupo |-> "cooperacao",   falta |-> "aviso"],
      [indice |-> IndiceSatisfacao, grupo |-> "satisfacao",   falta |-> "aviso"]>>

\* Mutant of CriaIndice: the index column is created for an empty group too.
CriaIndiceSempre(nomes, k) == TRUE

\* The guard of each block of step 4: if nomes_<grupo>:
CriaIndice(nomes, k) == nomes[IndicesPasso4[k].grupo] # <<>>

\* The indices step 4 creates.
IndicesCriados(nomes) ==
    {IndicesPasso4[k].indice : k \in {j \in 1..Len(IndicesPasso4) : CriaIndice(nomes, j)}}

RECURSIVE ColunasPasso4(_, _, _)
\* The column list after the first k blocks of step 4.
ColunasPasso4(cols, nomes, k) ==
    IF k = 0
    THEN cols
    ELSE LET antes == ColunasPasso4(cols, nomes, k - 1)
         IN IF CriaIndice(nomes, k)
            THEN AtribuirColuna(antes, IndicesPasso4[k].indice)
            ELSE antes

\* The log lines of step 4: one for each empty group.
LogPasso4(nomes) ==
    {<<IndicesPasso4[k].falta, IndicesPasso4[k].grupo>> :
        k \in {j \in 1..Len(IndicesPasso4) : ~CriaIndice(nomes, j)}}

\* A composition that keeps the groups with no column resolved.
ComposicaoComVazias(nomes) ==
    {[indice |-> IndicesPasso4[k].indice, colunas |-> nomes[IndicesPasso4[k].grupo]] :
        k \in 1..Len(IndicesPasso4)}

\* Step 6: the composition written to composicao_indices.json, empty lists
\* removed.
Composicao(nomes) ==
    {[indice |-> IndicesPasso4[k].indice, colunas |-> nomes[IndicesPasso4[k].grupo]] :
        k \in {j \in 1..Len(IndicesPasso4) : nomes[IndicesPasso4[j].grupo] # <<>>}}

\* Whether step 5 can raise: an "indice_autoeficacia" column that was not
\* computed here and is not numeric has min() and max() taken over text, and
\* the subtraction df[alvo] - minimo raises TypeError unless all values agree.
NormalizacaoPodeFalhar(ds, nomes) ==
    /\ nomes.autoeficacia = <<>>
    /\ IndiceAlvo \notin ds.numericas

\* The dataset transformar_dados returns: the columns of steps 4 and 5, the
\* computed indices numeric, and the normalized target of the dtype of the
\* target it is computed from.
SaidaTransformar(ds, nomes) ==
    LET cols4 == ColunasPasso4(ds.colunas, nomes, Len(IndicesPasso4))
        num4 == ds.numericas \cup IndicesCriados(nomes)
    IN [colunas   |-> AtribuirColuna(cols4, IndiceAlvoNorm),
        numericas |-> IF IndiceAlvo \in num4
                      THEN num4 \cup {IndiceAlvoNorm}
                      ELSE num4 \ {IndiceAlvoNorm}]

\* transformar_dados(df, cenario)
transformar_dados ==
    /\ pc = "transformar"
    /\ \E nomes \in {NomesReais(entrada.colunas)} :
       /\ nomes_grupo' = nomes
       /\ LET cols4 == ColunasPasso4(entrada.colunas, nomes, Len(IndicesPasso4))
          IN IF ColunasParaMapear(nomes) = {}
             THEN /\ log' = log \cup {<<"erro", "nenhuma coluna PISA">>}
                  /\ erro5' = "ValueError"
                  /\ pc' = "fim"
                  /\ UNCHANGED <<df, disco, capturadas>>
             ELSE IF IndiceAlvo \notin Elementos(cols4)
             THEN /\ log' = log \cup LogPasso4(nomes) \cup {<<"erro", "indice alvo">>}
                  /\ erro5' = "ValueError"
                  /\ pc' = "fim"
                  /\ UNCHANGED <<df, disco, capturadas>>
             ELSE \E excecao \in {FALSE} \cup {NormalizacaoPodeFalhar(entrada, nomes)},
                     json_ok \in BOOLEAN :
                  IF excecao
                  THEN /\ log' = log \cup LogPasso4(nomes)
                       /\ erro5' = "TypeError"
                       /\ pc' = "fim"
                       /\ UNCHANGED <<df, disco, capturadas>>
                  ELSE /\ df' = SaidaTransformar(entrada, nomes)
                       /\ log' = log \cup LogPasso4(nomes) \cup {<<"fim", "indice alvo">>}
                                 \cup (IF json_ok THEN {<<"info", "composicao">>}
                                                  ELSE {<<"aviso", "composicao">>})
                       /\ disco' = IF json_ok
                                   THEN [disco EXCEPT !.composicao =
                                            Arquivo("execucao", Composicao(nomes))]
                                   ELSE disco
                       /\ capturadas' = IF json_ok THEN capturadas
                                                   ELSE capturadas \cup {"composicao"}
                       /\ erro5' = "ok"
                       /\ pc' = "ajustar"
    /\ UNCHANGED <<entrada, alvo, X_cols, n_linhas, retorno, resultados,
                   modelo_ols, tentados, falhas, varsRes, varsOutros>>

\* ----------------------------------------- stage 7: target and features

\* _nome_alvo: the preferred target names, in order.
alvos_preferidos ==
    <<IndiceAlvoNorm, IndiceAlvo, <<"indice_bem_estar_norm">>, <<"ibd">>,
      <<"indice_bem_estar">>>>

\* _features_base: the engineered predictors, in order, and the control.
preditores_engenheirados ==
    <<IndiceClima, IndiceCarga, IndiceCooperacao, IndiceSatisfacao, IndiceFormacao>>
controles == <<<<"TC002Q01NA">>>>

\* Fewest features _features_base accepts, and the rows ajustar_modelo asks
\* for beyond one per feature.
MinFeatures == 2
MargemLinhas == 10

\* The elements of seq that are in S, in order.
Filtrar(seq, S) == SelectSeq(seq, LAMBDA x : x \in S)

\* _nome_alvo(df): <<>> stands for the ValueError raised when no preferred
\* name is a column.
nome_alvo(ds) ==
    LET presentes == Filtrar(alvos_preferidos, Elementos(ds.colunas))
    IN IF presentes = <<>> THEN <<>> ELSE presentes[1]

\* Mutant of ControleAceito: the control column is never added.
ControleNuncaAceito(ds, cols, col_real) == FALSE

\* The test that adds the control column to the features.
ControleAceito(ds, cols, col_real) ==
    /\ col_real # <<>>
    /\ col_real[1] \notin Elementos(cols)
    /\ col_real[1] \in ds.numericas

\* _features_base(df, alvo): the list before the len(cols) < 2 test.
features_base(ds) ==
    LET cols == Filtrar(preditores_engenheirados, Elementos(ds.colunas))
        col_real == encontrar_nomes_reais(ds.colunas, controles)
    IN IF ControleAceito(ds, cols, col_real)
       THEN Append(cols, col_real[1])
       ELSE cols

\* A name map that leaves out the last feature.
MapaOLSSemUltima(cols) ==
    [i \in 1..(Len(cols) - 1) |-> [original |-> cols[i], ols_nome |-> <<"var", i>>]]

\* The name map written to mapa_variaveis_ols.csv: one row per feature.
MapaOLS(cols) == [i \in 1..Len(cols) |-> [original |-> cols[i], ols_nome |-> <<"var", i>>]]

\* ajustar_modelo, from its start to the first candidate (steps 1 to 3).
\* n is dados.shape[0], the rows that survive the joint dropna.
AjustarInicio(amb) ==
    /\ pc = "ajustar"
    /\ \E y \in {nome_alvo(df)}, xs \in {features_base(df)}, n \in amb.linhas :
          IF y = <<>>
          THEN /\ retorno' = "ValueError"
               /\ pc' = "fim"
               /\ log' = log \cup {<<"inicio", "etapa 7">>}
               /\ UNCHANGED <<alvo, X_cols, n_linhas, disco>>
          ELSE IF Len(xs) < MinFeatures
          THEN /\ retorno' = "ValueError"
               /\ pc' = "fim"
               /\ log' = log \cup {<<"inicio", "etapa 7">>, <<"aviso", "preditoras">>}
               /\ UNCHANGED <<alvo, X_cols, n_linhas, disco>>
          ELSE IF n < Len(xs) + MargemLinhas
          THEN /\ retorno' = "ValueError"
               /\ pc' = "fim"
               /\ alvo' = y
               /\ X_cols' = xs
               /\ n_linhas' = n
               /\ log' = log \cup {<<"inicio", "etapa 7">>, <<"info", "alvo e preditores">>,
                                   <<"erro", "dados insuficientes">>}
               /\ UNCHANGED disco
          ELSE /\ alvo' = y
               /\ X_cols' = xs
               /\ n_linhas' = n
               /\ log' = log \cup {<<"inicio", "etapa 7">>, <<"info", "alvo e preditores">>}
               /\ disco' = [disco EXCEPT !.mapa_ols = Arquivo("execucao", MapaOLS(xs))]
               /\ pc' = "ols"
               /\ UNCHANGED retorno
    /\ UNCHANGED <<entrada, df, nomes_grupo, erro5, resultados, modelo_ols,
                   tentados, falhas, capturadas, varsRes, varsOutros>>

\* ------------------------------------------- stage 7: the candidate bank

\* The candidates in the order ajustar_modelo attempts them.
Candidatos ==
    <<"OLS", "OLS_interacao_climaXcarga", "Regressao_Robusta_Huber",
      "Regressao_Polinomial_grau2", "RandomForestRegressor",
      "GradientBoostingRegressor">>

\* A metric of the comparison table: a float, np.nan when it is undefined.
NaN == [nan |-> TRUE, v |-> 0]

Valor(v) == [nan |-> FALSE, v |-> v]

\* pd.notna
notna(m) == ~m.nan

\* The row a regression adds to resultados (MAE_CV and notas, which the
\* selection never reads, are left out).
LinhaOLS(nome, r2aj, aic, bic) ==
    [modelo |-> nome, R2_ajustado |-> r2aj, AIC |-> aic, BIC |-> bic,
     RMSE_CV |-> NaN, R2_CV |-> NaN]

\* The row a cross-validated candidate adds to resultados.
LinhaCV(nome, rmse, r2) ==
    [modelo |-> nome, R2_ajustado |-> NaN, AIC |-> NaN, BIC |-> NaN,
     RMSE_CV |-> rmse, R2_CV |-> r2]

caminho_modelo_rf == <<"resultados", "modelos", "rf_final.joblib">>

\* The pair of features the partial-dependence plot is drawn for.
principais(xs) ==
    LET presentes == Filtrar(<<IndiceClima, IndiceCarga, IndiceSatisfacao, IndiceCooperacao>>,
                             Elementos(xs))
    IN SubSeq(presentes, 1, IF Len(presentes) < 2 THEN Len(presentes) ELSE 2)

\* What a run's data and environment can produce: amb.r2cv, amb.rmse and
\* amb.ols are the values the metrics can take, amb.modos_ols the ways the OLS
\* fit can end, amb.passos_rf the steps of the random forest that can raise,
\* amb.graficos what the two plots drawn inside their own try block can do
\* ("ok" or "falha"), amb.max_ajustados the most candidates that fit.
PodeAjustar(amb) == Len(resultados) < amb.max_ajustados

\* Lines 201-245: the OLS by formula, by design matrix when the formula
\* raises, and neither when both raise.
AjustarOLS(amb) ==
    /\ pc = "ols"
    /\ \E modo \in amb.modos_ols :
          IF modo = "None"
          THEN /\ modelo_ols' = "None"
               /\ log' = log \cup {<<"erro", "Falha OLS (formula e matriz)">>,
                                   <<"erro", "Falha OLS">>}
               /\ falhas' = falhas \cup {<<"OLS", "fit">>}
               /\ capturadas' = capturadas \cup {"OLS_formula", "OLS_matriz"}
               /\ UNCHANGED <<resultados, disco>>
          ELSE /\ PodeAjustar(amb)
               /\ \E r2aj \in amb.ols, aic \in amb.ols, bic \in amb.ols :
                     resultados' = Append(resultados, LinhaOLS("OLS", r2aj, aic, bic))
               /\ \E grafico \in amb.graficos :
                     capturadas' = capturadas
                        \cup (IF modo = "matriz" THEN {"OLS_formula"} ELSE {})
                        \cup (IF grafico = "falha" THEN {"diagnosticos_ols"} ELSE {})
               /\ modelo_ols' = modo
               /\ disco' = [disco EXCEPT !.ols_csv = Arquivo("execucao", modo)]
               /\ log' = log \cup {<<"info", "Modelo OLS ajustado com sucesso">>}
               /\ UNCHANGED falhas
    /\ tentados' = tentados \cup {"OLS"}
    /\ pc' = "interacao"
    /\ UNCHANGED <<entrada, df, nomes_grupo, erro5, alvo, X_cols, n_linhas,
                   retorno, varsRes, varsOutros>>

\* Lines 247-269: the OLS with the climate x workload term, attempted only
\* when both indices are features.
AjustarInteracao(amb) ==
    /\ pc = "interacao"
    /\ IF IndiceClima \in Elementos(X_cols) /\ IndiceCarga \in Elementos(X_cols)
       THEN /\ tentados' = tentados \cup {"OLS_interacao_climaXcarga"}
            /\ \/ /\ PodeAjustar(amb)
                  /\ \E r2aj \in amb.ols, aic \in amb.ols, bic \in amb.ols :
                        resultados' = Append(resultados,
                            LinhaOLS("OLS_interacao_climaXcarga", r2aj, aic, bic))
                  /\ UNCHANGED <<log, falhas, capturadas>>
               \/ /\ log' = log \cup {<<"erro", "Falha OLS_interacao">>}
                  /\ falhas' = falhas \cup {<<"OLS_interacao_climaXcarga", "fit">>}
                  /\ capturadas' = capturadas \cup {"OLS_interacao_climaXcarga"}
                  /\ UNCHANGED resultados
       ELSE /\ log' = log \cup {<<"aviso", "Skipping OLS_interacao">>}
            /\ UNCHANGED <<tentados, resultados, falhas, capturadas>>
    /\ pc' = "huber"
    /\ UNCHANGED <<entrada, df, nomes_grupo, erro5, alvo, X_cols, n_linhas,
                   disco, retorno, modelo_ols, varsRes, varsOutros>>

\* A try block that cross-validates one candidate and appends its row, or
\* logs the exception (lines 272-283, 285-302, 340-351).
AjustarCV(amb, nome, falha, aqui, depois) ==
    /\ pc = aqui
    /\ tentados' = tentados \cup {nome}
    /\ \/ /\ PodeAjustar(amb)
          /\ \E rmse \in amb.rmse, r2 \in amb.r2cv :
                resultados' = Append(resultados, LinhaCV(nome, rmse, r2))
          /\ UNCHANGED <<log, falhas, capturadas>>
       \/ /\ log' = log \cup {<<"erro", falha>>}
          /\ falhas' = falhas \cup {<<nome, "cv">>}
          /\ capturadas' = capturadas \cup {nome}
          /\ UNCHANGED resultados
    /\ pc' = depois
    /\ UNCHANGED <<entrada, df, nomes_grupo, erro5, alvo, X_cols, n_linhas,
                   disco, retorno, modelo_ols, varsRes, varsOutros>>

AjustarHuber(amb) ==
    AjustarCV(amb, "Regressao_Robusta_Huber", "Falha Huber", "huber", "polinomial")

AjustarPolinomial(amb) ==
    AjustarCV(amb, "Regressao_Polinomial_grau2", "Falha Polinomial", "polinomial", "rf")

AjustarGradientBoosting(amb) ==
    AjustarCV(amb, "GradientBoostingRegressor", "Falha GradientBoosting", "gb", "selecao")

\* The steps of the random forest's try block after its row is appended, the
\* partial-dependence plot only when a feature of the plot is present.
PassosRF(xs) ==
    IF principais(xs) = <<>> THEN {"refit", "dump"} ELSE {"refit", "pdp", "dump"}

\* Lines 304-338: cross-validation, the row, then the refit, the plots and
\* the dump of the refitted forest, all in one try block. passo is the step
\* that raises, "nenhum" when none does.
AjustarRandomForest(amb) ==
    /\ pc = "rf"
    /\ tentados' = tentados \cup {"RandomForestRegressor"}
    /\ \E passo \in {"cv", "nenhum"} \cup (amb.passos_rf \cap PassosRF(X_cols)) :
          IF passo = "cv"
          THEN /\ log' = log \cup {<<"erro", "Falha RandomForest">>}
               /\ falhas' = falhas \cup {<<"RandomForestRegressor", "cv">>}
               /\ capturadas' = capturadas \cup {"RandomForestRegressor"}
               /\ UNCHANGED <<resultados, disco>>
          ELSE /\ PodeAjustar(amb)
               /\ \E rmse \in amb.rmse, r2 \in amb.r2cv :
                     resultados' = Append(resultados,
                                          LinhaCV("RandomForestRegressor", rmse, r2))
               /\ \E grafico \in IF passo = "refit" THEN {"ok"} ELSE amb.graficos :
                     capturadas' = capturadas
                        \cup (IF grafico = "falha" THEN {"importancias_rf"} ELSE {})
                        \cup (IF passo = "nenhum" THEN {} ELSE {"RandomForestRegressor"})
               /\ IF passo = "nenhum"
                  THEN /\ disco' = [disco EXCEPT !.joblib =
                                       Arquivo("execucao", "RandomForestRegressor")]
                       /\ log' = log \cup {<<"info", "Modelo Random Forest final salvo">>}
                       /\ UNCHANGED falhas
                  ELSE /\ log' = log \cup {<<"erro", "Falha RandomForest">>}
                       /\ falhas' = falhas \cup {<<"RandomForestRegressor", passo>>}
                       /\ UNCHANGED disco
    /\ pc' = "gb"
    /\ UNCHANGED <<entrada, df, nomes_grupo, erro5, alvo, X_cols, n_linhas,
                   retorno, modelo_ols, varsRes, varsOutros>>

\* -------------------------------------------- stage 7: choosing the best

\* The -1e9 the key of max puts in place of a metric that is not a number.
SENTINELA == -1000000000

\* A key that prefers the lower R2_CV.
ChaveSelecaoInvertida(r) ==
    <<IF notna(r.R2_CV) THEN -r.R2_CV.v ELSE SENTINELA,
      IF notna(r.RMSE_CV) THEN -r.RMSE_CV.v ELSE SENTINELA,
      IF notna(r.R2_ajustado) THEN r.R2_ajustado.v ELSE SENTINELA,
      IF notna(r.AIC) THEN -r.AIC.v ELSE SENTINELA,
      IF notna(r.BIC) THEN -r.BIC.v ELSE SENTINELA>>

\* A key that stops at the cross-validated metrics.
ChaveSelecaoSoCV(r) ==
    <<IF notna(r.R2_CV) THEN r.R2_CV.v ELSE SENTINELA,
      IF notna(r.RMSE_CV) THEN -r.RMSE_CV.v ELSE SENTINELA>>

\* The key of max (lines 367-373): R2_CV, -RMSE_CV, R2_ajustado, -AIC, -BIC,
\* each replaced by the sentinel when it is NaN.
ChaveSelecao(r) ==
    <<IF notna(r.R2_CV) THEN r.R2_CV.v ELSE SENTINELA,
      IF notna(r.RMSE_CV) THEN -r.RMSE_CV.v ELSE SENTINELA,
      IF notna(r.R2_ajustado) THEN r.R2_ajustado.v ELSE SENTINELA,
      IF notna(r.AIC) THEN -r.AIC.v ELSE SENTINELA,
      IF notna(r.BIC) THEN -r.BIC.v ELSE SENTINELA>>

\* Python's > on tuples of equal length: decided at the first position where
\* they differ.
TuplaMaior(a, b) ==
    \E i \in 1..Len(a) :
       /\ a[i] > b[i]
       /\ \A j \in 1..(i - 1) : a[j] = b[j]

RECURSIVE MaxPorChave(_)
\* Python's max(seq, key=...): the running maximum is replaced only by an item
\* whose key is strictly greater, so the first of equal maxima is returned.
MaxPorChave(seq) ==
    IF Len(seq) = 1
    THEN seq[1]
    ELSE LET n == Len(seq)
             m == MaxPorChave(SubSeq(seq, 1, n - 1))
         IN IF TuplaMaior(ChaveSelecao(seq[n]), ChaveSelecao(m)) THEN seq[n] ELSE m

comparacao_path == <<"resultados", "tabelas", "comparacao_modelos.csv">>

\* Lines 375-385: the record of the winner; the path of the saved estimator
\* is a key only when the winner is the random forest.
Meta(melhor, y, xs) ==
    LET base == [melhor_modelo      |-> melhor.modelo,
                 criterio           |-> "prioridade: maior R2_CV; depois menor RMSE_CV; depois maior R2_ajustado; AIC/BIC como desempate",
                 alvo               |-> y,
                 features           |-> xs,
                 tabela_resumo_path |-> comparacao_path]
    IN IF melhor.modelo = "RandomForestRegressor"
       THEN [k \in DOMAIN base \cup {"caminho_modelo_salvo"} |->
                IF k = "caminho_modelo_salvo" THEN caminho_modelo_rf ELSE base[k]]
       ELSE base

\* The text summary: winner, criterion, target, number of features, table.
TextoMelhor(meta, comp) ==
    [melhor |-> meta.melhor_modelo, criterio |-> meta.criterio, alvo |-> meta.alvo,
     n_features |-> Len(meta.features), tabela |-> comp]

\* A return that is normal whether or not the OLS was fitted.
RetornoSempreOk(m) == "ok"

\* Lines 402-404: RuntimeError when modelo_ols is None, the OLS otherwise.
RetornoAjustar(m) == IF m = "None" THEN "RuntimeError" ELSE "ok"

\* A consolidation that leaves comparacao_modelos.csv as it was.
SemEscreverComparacao(d, res) == d

\* Lines 362-364: the rows of resultados, one or none, are written to
\* comparacao_modelos.csv.
EscreverComparacao(d, res) == [d EXCEPT !.comparacao = Arquivo("execucao", res)]

\* Lines 353-404: the comparison table is written, the best row chosen, the
\* record and the summary written, and the OLS returned; max of an empty
\* table raises ValueError and a missing OLS raises RuntimeError at the end.
Selecao ==
    /\ pc = "selecao"
    /\ pc' = "fim"
    /\ IF resultados = <<>>
       THEN /\ disco' = EscreverComparacao(disco, resultados)
            /\ log' = log \cup {<<"info", "Logistica Ordinal pulada">>}
            /\ retorno' = "ValueError"
       ELSE \E meta \in {Meta(MaxPorChave(resultados), alvo, X_cols)} :
            /\ disco' = [EscreverComparacao(disco, resultados) EXCEPT
                            !.melhor_json = Arquivo("execucao", meta),
                            !.melhor_txt  = Arquivo("execucao", TextoMelhor(meta, resultados))]
            /\ log' = log \cup {<<"info", "Logistica Ordinal pulada">>,
                                <<"fim", "Melhor modelo selecionado", meta.melhor_modelo>>}
            /\ retorno' = RetornoAjustar(modelo_ols)
    /\ UNCHANGED <<entrada, df, nomes_grupo, erro5, alvo, X_cols, n_linhas,
                   resultados, modelo_ols, tentados, falhas, capturadas, varsRes,
                   varsOutros>>

\* Everything a run can meet: every way of failing, few metric values.
AmbienteFluxo ==
    [linhas        |-> 0..MaxLinhas,
     r2cv          |-> {NaN, Valor(0), Valor(1)},
     rmse          |-> {Valor(0)},
     ols           |-> {Valor(0)},
     modos_ols     |-> {"formula", "matriz", "None"},
     passos_rf     |-> {"refit", "pdp", "dump"},
     graficos      |-> {"ok"},
     max_ajustados |-> Len(Candidatos)]

\* Every metric value, NaN and a cross-validated R2 below -1e9 included, for
\* the few candidates that fit; a candidate fails as a whole or not at all.
AmbienteSelecao ==
    [linhas        |-> {MaxLinhas},
     r2cv          |-> {NaN, Valor(SENTINELA - 1)} \cup {Valor(v) : v \in 0..MaxMetrica},
     rmse          |-> {NaN} \cup {Valor(v) : v \in 0..MaxMetrica},
     ols           |-> {NaN} \cup {Valor(v) : v \in 0..MaxMetrica},
     modos_ols     |-> {"formula", "None"},
     passos_rf     |-> {},
     graficos      |-> {"ok"},
     max_ajustados |-> MaxAjustados]

\* ---------------------------------------- stages 5 and 7 on many datasets

\* The columns a dataset is drawn from, in file order: one item of each group
\* (the climate item in lower case), the control, and two columns that carry
\* the name of an engineered index.
UniversoColunas ==
    <<<<"TC199Q01HA">>, <<"TC045Q01NB">>, <<"TC028Q01NA">>, <<"tc170q01ha">>,
      <<"TC046Q04NA">>, <<"TC198Q03HA">>, <<"TC002Q01NA">>,
      IndiceAlvo, IndiceClima>>

\* The columns whose dtype varies from file to file; the others hold coded
\* text.
ColunasTipoVariavel == {<<"TC002Q01NA">>, IndiceAlvo}

RECURSIVE SubSequencia(_, _)
\* The elements of seq whose positions are in S, in order.
SubSequencia(seq, S) ==
    IF seq = <<>>
    THEN <<>>
    ELSE LET n == Len(seq)
             antes == SubSequencia(SubSeq(seq, 1, n - 1), S)
         IN IF n \in S THEN Append(antes, seq[n]) ELSE antes

EntradasTransf ==
    {[colunas |-> SubSequencia(UniversoColunas, S), numericas |-> N] :
        S \in SUBSET (1..Len(UniversoColunas)),
        N \in SUBSET ColunasTipoVariavel}

InitTransf ==
    /\ ResParado
    /\ OutrosParados
    /\ pc = "transformar"
    /\ entrada \in {e \in EntradasTransf : e.numericas \subseteq Elementos(e.colunas)}
    /\ df = entrada
    /\ nomes_grupo = NomesVazios
    /\ erro5 = "nenhum"
    /\ alvo = <<>>
    /\ X_cols = <<>>
    /\ n_linhas = -1
    /\ log = {}
    /\ disco = DiscoVazio
    /\ retorno = "nenhum"
    /\ resultados = <<>>
    /\ modelo_ols = "None"
    /\ tentados = {}
    /\ falhas = {}
    /\ capturadas = {}

NextTransf == transformar_dados \/ AjustarInicio(AmbienteFluxo)

SpecTransf == InitTransf /\ [][NextTransf]_vars

\* ------------------------------------------------- stage 7 on a dataset

\* The raw datasets stage 7 is studied on: every group and the control; no
\* climate item; only the target and formation groups and the control.
EntradasBanco ==
    {[colunas |-> SubSequencia(UniversoColunas, 1..7), numericas |-> {<<"TC002Q01NA">>}],
     [colunas |-> SubSequencia(UniversoColunas, {1, 2, 3, 5, 6, 7}),
      numericas |-> {<<"TC002Q01NA">>}],
     [colunas |-> SubSequencia(UniversoColunas, {1, 2, 7}), numericas |-> {<<"TC002Q01NA">>}]}

\* The files an earlier run of the pipeline left behind, the record naming
\* the random forest as its winner.
DiscoAnterior ==
    LET xs == <<IndiceFormacao, IndiceCarga>>
        linha == LinhaCV("RandomForestRegressor", Valor(0), Valor(1))
        meta == Meta(linha, IndiceAlvoNorm, xs)
    IN [composicao  |-> Arquivo("anterior", {}),
        mapa_ols    |-> Arquivo("anterior", MapaOLS(xs)),
        comparacao  |-> Arquivo("anterior", <<linha>>),
        melhor_json |-> Arquivo("anterior", meta),
        melhor_txt  |-> Arquivo("anterior", TextoMelhor(meta, <<linha>>)),
        ols_csv     |-> Arquivo("anterior", "formula"),
        joblib      |-> Arquivo("anterior", "RandomForestRegressor")]

\* The state in which main calls ajustar_modelo: transformar_dados has
\* returned the transformed dataset of e and written its composition file.
InitBanco(entradas, discos) ==
    /\ ResParado
    /\ OutrosParados
    /\ pc = "ajustar"
    /\ entrada \in entradas
    /\ nomes_grupo = NomesReais(entrada.colunas)
    /\ df = SaidaTransformar(entrada, nomes_grupo)
    /\ erro5 = "ok"
    /\ alvo = <<>>
    /\ X_cols = <<>>
    /\ n_linhas = -1
    /\ log = {}
    /\ \E d \in discos :
          disco = [d EXCEPT !.composicao = Arquivo("execucao", Composicao(nomes_grupo))]
    /\ retorno = "nenhum"
    /\ resultados = <<>>
    /\ modelo_ols = "None"
    /\ tentados = {}
    /\ falhas = {}
    /\ capturadas = {}

Init == InitBanco(EntradasBanco, {DiscoVazio, DiscoAnterior})

Next ==
    \/ AjustarInicio(AmbienteFluxo)
    \/ AjustarOLS(AmbienteFluxo)
    \/ AjustarInteracao(AmbienteFluxo)
    \/ AjustarHuber(AmbienteFluxo)
    \/ AjustarPolinomial(AmbienteFluxo)
    \/ AjustarRandomForest(AmbienteFluxo)
    \/ AjustarGradientBoosting(AmbienteFluxo)
    \/ Selecao

Spec == Init /\ [][Next]_vars

\* The selection studied on one dataset with every metric value.
InitSel ==
    InitBanco({[colunas |-> SubSequencia(UniversoColunas, 1..7),
                numericas |-> {<<"TC002Q01NA">>}]}, {DiscoVazio})

NextSel ==
    \/ AjustarInicio(AmbienteSelecao)
    \/ AjustarOLS(AmbienteSelecao)
    \/ AjustarInteracao(AmbienteSelecao)
    \/ AjustarHuber(AmbienteSelecao)
    \/ AjustarPolinomial(AmbienteSelecao)
    \/ AjustarRandomForest(AmbienteSelecao)
    \/ AjustarGradientBoosting(AmbienteSelecao)
    \/ Selecao

SpecSel == InitSel /\ [][NextSel]_vars

\* ---- claims about stage 5 and the start of stage 7

\* transformar_dados has ended.
Transformado == erro5 # "nenhum"

\* The predictor groups and the index of each.
GruposPreditores ==
    {[grupo |-> "formacao", indice |-> IndiceFormacao],
     [grupo |-> "carga", indice |-> IndiceCarga],
     [grupo |-> "clima", indice |-> IndiceClima],
     [grupo |-> "cooperacao", indice |-> IndiceCooperacao],
     [grupo |-> "satisfacao", indice |-> IndiceSatisfacao]}

\* C7: whenever the target group resolves to zero columns transformar_dados
\* raises and returns no dataset, whatever else the input holds.
AlvoAusenteSempreFalha ==
    (Transformado /\ nomes_grupo.autoeficacia = <<>>) =>
        (erro5 \in {"ValueError", "TypeError"} /\ df = entrada)

\* The columns of the dataset that match the control prefix.
ColunasControle(ds) == {c \in Elementos(ds.colunas) : Casa(c, controles[1])}

\* ajustar_modelo has passed or failed its first three steps.
AjusteIniciado == erro5 = "ok" /\ pc \in {"ols", "fim"}

Terminou == pc = "fim" /\ retorno # "nenhum" /\ alvo # <<>> /\ n_linhas >= Len(X_cols) + MargemLinhas

RegistroEscrito == Terminou /\ disco.melhor_json.origem = "execucao"

Vencedor == disco.melhor_json.conteudo.melhor_modelo

NomesComparados == {resultados[i].modelo : i \in 1..Len(resultados)}

ArvoresEnsemble == {"RandomForestRegressor", "GradientBoostingRegressor"}

\* The priority list as the specification words it: the metric of each
\* position and whether more of it is better.
Criterios ==
    <<[campo |-> "R2_CV", maior |-> TRUE], [campo |-> "RMSE_CV", maior |-> FALSE],
      [campo |-> "R2_ajustado", maior |-> TRUE], [campo |-> "AIC", maior |-> FALSE],
      [campo |-> "BIC", maior |-> FALSE]>>

\* a is better than b on one criterion, a missing metric being worse than
\* every number.
MetricaMelhor(a, b, maior) ==
    /\ ~a.nan
    /\ \/ b.nan
       \/ IF maior THEN a.v > b.v ELSE a.v < b.v

MetricaIgual(a, b) == (a.nan /\ b.nan) \/ (~a.nan /\ ~b.nan /\ a.v = b.v)

\* a ranks above b on the criteria de..5 taken in order.
Supera(a, b, de) ==
    \E i \in de..Len(Criterios) :
       /\ MetricaMelhor(a[Criterios[i].campo], b[Criterios[i].campo], Criterios[i].maior)
       /\ \A j \in de..(i - 1) : MetricaIgual(a[Criterios[j].campo], b[Criterios[j].campo])

\* C1: the recorded winner is a candidate fitted in this run, the first in
\* iteration order that no other candidate outranks on the key (R2_CV,
\* -RMSE_CV, R2_ajustado, -AIC, -BIC) with a missing metric counted as the
\* worst value of its position.
VencedorPrimeiroMaximo ==
    RegistroEscrito =>
        \E k \in 1..Len(resultados) :
           /\ Vencedor = resultados[k].modelo
           /\ \A j \in 1..Len(resultados) : ~Supera(resultados[j], resultados[k], 1)
           /\ \A j \in 1..(k - 1) : Supera(resultados[k], resultados[j], 1)

\* The error line ajustar_modelo logs for a candidate's exception.
MensagemFalha(c) ==
    CASE c = "OLS" -> "Falha OLS"
      [] c = "OLS_interacao_climaXcarga" -> "Falha OLS_interacao"
      [] c = "Regressao_Robusta_Huber" -> "Falha Huber"
      [] c = "Regressao_Polinomial_grau2" -> "Falha Polinomial"
      [] c = "RandomForestRegressor" -> "Falha RandomForest"
      [] OTHER -> "Falha GradientBoosting"

\* The candidates the run has to attempt: all of them, the interaction only
\* when both of its features are present.
Aplicaveis ==
    {Candidatos[i] : i \in 1..Len(Candidatos)} \
        (IF IndiceClima \in Elementos(X_cols) /\ IndiceCarga \in Elementos(X_cols)
         THEN {} ELSE {"OLS_interacao_climaXcarga"})

\* C2: a candidate whose fitting or scoring raised is logged, is not in the
\* comparison set, does not keep any other candidate from being attempted,
\* and does not make ajustar_modelo raise while another candidate fitted.
FalhaDeCandidatoIsolada ==
    Terminou =>
        \A f \in falhas :
           /\ <<"erro", MensagemFalha(f[1])>> \in log
           /\ f[1] \notin NomesComparados
           /\ Aplicaveis \subseteq tentados
           /\ (resultados # <<>> => retorno = "ok")

\* C3: the record written by ajustar_modelo has the winner, the criterion,
\* the target and the features, and has the path of the saved model exactly
\* when the winner is the random forest or the gradient boosting.
RegistroComCaminhoSeArvore ==
    RegistroEscrito =>
        /\ {"melhor_modelo", "criterio", "alvo", "features"}
              \subseteq DOMAIN disco.melhor_json.conteudo
        /\ ("caminho_modelo_salvo" \in DOMAIN disco.melhor_json.conteudo)
              <=> (Vencedor \in ArvoresEnsemble)

\* C4: when the recorded winner is a tree ensemble, the file of the saved
\* estimator was written by this run and holds the winning model.
EstimadorDoVencedorSalvo ==
    (RegistroEscrito /\ Vencedor \in ArvoresEnsemble) =>
        /\ disco.joblib.origem = "execucao"
        /\ disco.joblib.conteudo = Vencedor

\* C5: of two candidates that both have a cross-validated R2 and differ in
\* it, the one with the higher R2_CV is the recorded winner, whatever the
\* other metrics are.
MaiorR2CVVence ==
    (/\ Terminou
     /\ Len(resultados) = 2
     /\ notna(resultados[1].R2_CV)
     /\ notna(resultados[2].R2_CV)
     /\ resultados[1].R2_CV.v # resultados[2].R2_CV.v) =>
        /\ disco.melhor_json.origem = "execucao"
        /\ Vencedor = IF resultados[1].R2_CV.v > resultados[2].R2_CV.v
                      THEN resultados[1].modelo
                      ELSE resultados[2].modelo

\* The later candidate has the higher R2_CV and no RMSE_CV, the earlier one a
\* lower R2_CV and the best RMSE_CV, and the later one is recorded.
MaiorR2CVVenceWitness ==
    /\ Terminou
    /\ Len(resultados) = 2
    /\ notna(resultados[1].R2_CV)
    /\ notna(resultados[2].R2_CV)
    /\ resultados[2].R2_CV.v > resultados[1].R2_CV.v
    /\ resultados[2].RMSE_CV.nan
    /\ notna(resultados[1].RMSE_CV)
    /\ disco.melhor_json.origem = "execucao"
    /\ Vencedor = resultados[2].modelo

SemMetricasCV ==
    /\ resultados # <<>>
    /\ \A i \in 1..Len(resultados) : resultados[i].R2_CV.nan /\ resultados[i].RMSE_CV.nan

\* C6: when no candidate of the comparison set has a cross-validated metric,
\* a winner is still recorded and it is one that no candidate outranks on
\* R2_ajustado, AIC and BIC taken in that order.
SemCVDecidemOsUltimosCriterios ==
    (Terminou /\ SemMetricasCV) =>
        /\ disco.melhor_json.origem = "execucao"
        /\ \E k \in 1..Len(resultados) :
              /\ Vencedor = resultados[k].modelo
              /\ \A j \in 1..Len(resultados) : ~Supera(resultados[j], resultados[k], 3)

\* Two regressions with the same adjusted R2, the later one with the lower
\* AIC, and the later one is recorded.
SemCVDecidemOsUltimosCriteriosWitness ==
    /\ Terminou
    /\ SemMetricasCV
    /\ Len(resultados) = 2
    /\ MetricaIgual(resultados[1].R2_ajustado, resultados[2].R2_ajustado)
    /\ MetricaMelhor(resultados[2].AIC, resultados[1].AIC, FALSE)
    /\ disco.melhor_json.origem = "execucao"
    /\ Vencedor = resultados[2].modelo

\* The entries of composicao_indices.json under one index name.
EntradasDoIndice(idx) == {e \in disco.composicao.conteudo : e.indice = idx}

\* C24: when transformar_dados returns and the file was written, it has for
\* each engineered index one entry holding exactly the columns resolved for
\* the index's group if the group resolved a column, and no entry otherwise,
\* and every key is an index column of the dataset returned; when the write
\* failed, a warning is logged, no file of this run exists and the dataset is
\* returned all the same.
ComposicaoDosIndices ==
    erro5 = "ok" =>
        /\ pc # "transformar"
        /\ IndiceAlvoNorm \in Elementos(df.colunas)
        /\ IF "composicao" \in capturadas
           THEN /\ <<"aviso", "composicao">> \in log
                /\ disco.composicao.origem # "execucao"
           ELSE /\ disco.composicao.origem = "execucao"
                /\ <<"aviso", "composicao">> \notin log
                /\ \A k \in 1..Len(IndicesPasso4) :
                      EntradasDoIndice(IndicesPasso4[k].indice) =
                         IF nomes_grupo[IndicesPasso4[k].grupo] # <<>>
                         THEN {[indice  |-> IndicesPasso4[k].indice,
                                colunas |-> nomes_grupo[IndicesPasso4[k].grupo]]}
                         ELSE {}
                /\ \A e \in disco.composicao.conteudo :
                      /\ e.indice \in Elementos(df.colunas)
                      /\ \E k \in 1..Len(IndicesPasso4) : e.indice = IndicesPasso4[k].indice
                      /\ Elementos(e.colunas) \subseteq Elementos(entrada.colunas)

\* The file of a run that resolved the target and the climate group only: two
\* keys, the climate one holding the lower-case column found, and no key for
\* the cooperation index.
ComposicaoDosIndicesWitness ==
    /\ erro5 = "ok"
    /\ disco.composicao.origem = "execucao"
    /\ Cardinality(disco.composicao.conteudo) = 2
    /\ [indice |-> IndiceClima, colunas |-> <<<<"tc170q01ha">>>>]
          \in disco.composicao.conteudo
    /\ EntradasDoIndice(IndiceCooperacao) = {}
    /\ EntradasDoIndice(IndiceAlvo) # {}

\* The candidates scored by cross-validation and the two scored in sample.
ComValidacaoCruzada ==
    {"Regressao_Robusta_Huber", "Regressao_Polinomial_grau2", "RandomForestRegressor",
     "GradientBoostingRegressor"}

FamiliaOLS == {"OLS", "OLS_interacao_climaXcarga"}

\* C27: when a record is written and a cross-validated candidate is in the
\* comparison set, the recorded winner is not OLS and not the interaction
\* model, whatever the metrics are.
FamiliaOLSNuncaVenceCV ==
    (RegistroEscrito /\ NomesComparados \cap ComValidacaoCruzada # {}) =>
        Vencedor \notin FamiliaOLS

\* What holds instead: with a cross-validated candidate whose R2_CV is
\* defined and above -1e9 in the set, no model of the OLS family is recorded.
FamiliaOLSPerdeParaCVDefinido ==
    (/\ RegistroEscrito
     /\ \E i \in 1..Len(resultados) :
           /\ resultados[i].modelo \in ComValidacaoCruzada
           /\ notna(resultados[i].R2_CV)
           /\ resultados[i].R2_CV.v > SENTINELA) =>
        Vencedor \notin FamiliaOLS

\* C28: a run that reached the consolidation returns normally exactly when
\* the plain OLS was fitted; when it was not and another candidate is in the
\* comparison set, the comparison table holds this run's rows, the record
\* names one of them as winner, the summary is written, and the run ends in
\* RuntimeError.
RetornaSoComOLS ==
    Terminou =>
        /\ retorno = "ok" <=> modelo_ols # "None"
        /\ retorno = "ok" => "OLS" \in NomesComparados
        /\ (modelo_ols = "None" /\ resultados # <<>>) =>
              /\ retorno = "RuntimeError"
              /\ disco.comparacao = [origem |-> "execucao", conteudo |-> resultados]
              /\ disco.melhor_json.origem = "execucao"
              /\ disco.melhor_txt.origem = "execucao"
              /\ Vencedor \in NomesComparados
              /\ "OLS" \notin NomesComparados
              /\ <<"fim", "Melhor modelo selecionado", Vencedor>> \in log

\* The OLS failed both ways, the Huber regression and the random forest are
\* compared, the forest is recorded over the record of an earlier run, and
\* the run ends in RuntimeError.
RetornaSoComOLSWitness ==
    /\ Terminou
    /\ modelo_ols = "None"
    /\ retorno = "RuntimeError"
    /\ NomesComparados = {"Regressao_Robusta_Huber", "RandomForestRegressor"}
    /\ disco.melhor_json.origem = "execucao"
    /\ Vencedor = "RandomForestRegressor"
    /\ disco.ols_csv.origem = "anterior"

\* C29: a run that reached the consolidation with no candidate fitted ends
\* in ValueError with melhor_modelo.json and melhor_modelo.txt as they were
\* before the run (absent, or those of the earlier run), while
\* comparacao_modelos.csv is this run's table with no row.
SelecaoVaziaNaoEscreveRegistro ==
    (Terminou /\ resultados = <<>>) =>
        /\ retorno = "ValueError"
        /\ disco.melhor_json \in {DiscoVazio.melhor_json, DiscoAnterior.melhor_json}
        /\ disco.melhor_txt \in {DiscoVazio.melhor_txt, DiscoAnterior.melhor_txt}
        /\ disco.melhor_json.origem = disco.melhor_txt.origem
        /\ disco.comparacao = [origem |-> "execucao", conteudo |-> <<>>]
        /\ \A l \in log : l[1] # "fim"

\* Every candidate failed on a folder that holds the record of an earlier
\* run: the record still names that run's random forest and the comparison
\* table is empty.
SelecaoVaziaNaoEscreveRegistroWitness ==
    /\ Terminou
    /\ resultados = <<>>
    /\ retorno = "ValueError"
    /\ disco.melhor_json = DiscoAnterior.melhor_json
    /\ disco.melhor_json.conteudo.melhor_modelo = "RandomForestRegressor"
    /\ disco.comparacao.origem = "execucao"
    /\ disco.comparacao.conteudo = <<>>
    /\ Cardinality(falhas) >= 5

\* ------------------------------------------- stage 5: the value normalizer

\* A text is a sequence of pieces: a word or numeral in its lower-case
\* spelling with a flag for upper-case letters in it, or one blank.
Peca(letras) == [letras |-> letras, maiuscula |-> FALSE]

Branco == Peca(" ")

\* The numerals and other pieces that have no letter case.
SemCaixa == {" ", "1", "0", "2", "3.5", "1.0", "3.0"}

RECURSIVE Frase(_)
\* The lower-case text of the words separated by single blanks.
Frase(palavras) ==
    IF Len(palavras) <= 1
    THEN [i \in 1..Len(palavras) |-> Peca(palavras[i])]
    ELSE Frase(SubSeq(palavras, 1, Len(palavras) - 1))
            \o <<Branco, Peca(palavras[Len(palavras)])>>

\* A strip() and a lower() that return the text as it is.
SemStrip(t) == t

SemLower(t) == t

\* str.strip(): the text without its leading and trailing blanks.
strip(t) ==
    LET cheias == {i \in 1..Len(t) : t[i] # Branco}
    IN IF cheias = {}
       THEN <<>>
       ELSE SubSeq(t, CHOOSE i \in cheias : \A j \in cheias : i <= j,
                      CHOOSE i \in cheias : \A j \in cheias : i >= j)

\* str.lower()
lower(t) == [i \in 1..Len(t) |-> [t[i] EXCEPT !.maiuscula = FALSE]]

\* The numbers studied as cells, with the text str() gives for each: an int
\* prints without a decimal point, a float with one.
ReprNumeros ==
    <<[tipo |-> "int", valor |-> Num(10), texto |-> Frase(<<"1">>)],
      [tipo |-> "int", valor |-> Num(20), texto |-> Frase(<<"2">>)],
      [tipo |-> "float", valor |-> Num(10), texto |-> Frase(<<"1.0">>)],
      [tipo |-> "float", valor |-> Num(35), texto |-> Frase(<<"3.5">>)]>>

\* str(v) of a cell that is not missing.
str(v) ==
    IF v.tipo = "str"
    THEN v.texto
    ELSE ReprNumeros[CHOOSE i \in 1..Len(ReprNumeros) :
                        ReprNumeros[i].tipo = v.tipo /\ ReprNumeros[i].valor = v.valor].texto

\* The dict likert (lines 25-41), in its order.
likert ==
    <<[chave |-> Frase(<<"strongly", "disagree">>), valor |-> 1],
      [chave |-> Frase(<<"disagree">>), valor |-> 2],
      [chave |-> Frase(<<"agree">>), valor |-> 3],
      [chave |-> Frase(<<"strongly", "agree">>), valor |-> 4],
      [chave |-> Frase(<<"not", "at", "all">>), valor |-> 1],
      [chave |-> Frase(<<"very", "little">>), valor |-> 2],
      [chave |-> Frase(<<"to", "some", "extent">>), valor |-> 3],
      [chave |-> Frase(<<"to", "a", "large", "extent">>), valor |-> 4],
      [chave |-> Frase(<<"never", "or", "hardly", "ever">>), valor |-> 1],
      [chave |-> Frase(<<"several", "times", "a", "year">>), valor |-> 2],
      [chave |-> Frase(<<"several", "times", "a", "month">>), valor |-> 3],
      [chave |-> Frase(<<"several", "times", "a", "week">>), valor |-> 4]>>

positivos ==
    {Frase(<<"checked">>), Frase(<<"yes">>), Frase(<<"sim">>), Frase(<<"true">>),
     Frase(<<"1">>), Frase(<<"y">>), Frase(<<"s">>), Frase(<<"completed">>)}

negativos ==
    {Frase(<<"not", "checked">>), Frase(<<"no">>), Frase(<<"não">>), Frase(<<"nao">>),
     Frase(<<"false">>), Frase(<<"0">>), Frase(<<"n">>), Frase(<<"not", "completed">>)}

\* The texts float() accepts among those studied, with the float of each;
\* on every other text float() raises ValueError.
NumeraisFloat ==
    <<[texto |-> Frase(<<"3.5">>), valor |-> Num(35)],
      [texto |-> Frase(<<"1.0">>), valor |-> Num(10)],
      [texto |-> Frase(<<"3.0">>), valor |-> Num(30)],
      [texto |-> Frase(<<"1">>), valor |-> Num(10)],
      [texto |-> Frase(<<"0">>), valor |-> Num(0)],
      [texto |-> Frase(<<"2">>), valor |-> Num(20)],
      [texto |-> Frase(<<"inf">>), valor |-> Infinito],
      [texto |-> Frase(<<"nan">>), valor |-> NaNf]>>

\* The entries of a table whose key is s.
Entradas(tab, campo, s) == {i \in 1..Len(tab) : tab[i][campo] = s}

\* _mapear_valor(v)
mapear_valor(v) ==
    IF v.tipo = "na"
    THEN NaNf
    ELSE LET s == lower(strip(str(v)))
         IN IF Entradas(likert, "chave", s) # {}
            THEN Num(10 * likert[CHOOSE i \in Entradas(likert, "chave", s) : TRUE].valor)
            ELSE IF s \in positivos
            THEN Num(10)
            ELSE IF s \in negativos
            THEN Num(0)
            ELSE IF Entradas(NumeraisFloat, "texto", s) # {}
            THEN NumeraisFloat[CHOOSE i \in Entradas(NumeraisFloat, "texto", s) : TRUE].valor
            ELSE NaNf

\* ---------------------------------------- normalizer called on its own

\* Texts that are in no vocabulary and that float() rejects: a word, a proper
\* part of a Likert text, a Likert text with its words apart by two blanks or
\* in the other order, a binary text followed by a word, the empty text.
TextosDesconhecidos ==
    {Frase(<<"abc">>), Frase(<<"strongly">>), Frase(<<"agree", "strongly">>),
     <<Peca("strongly"), Branco, Branco, Peca("agree")>>,
     Frase(<<"yes", "abc">>), Frase(<<"3.5", "abc">>), Frase(<<"not">>), <<>>}

BasesTexto ==
    {likert[i].chave : i \in 1..Len(likert)} \cup positivos \cup negativos
        \cup {NumeraisFloat[i].texto : i \in 1..Len(NumeraisFloat)}
        \cup TextosDesconhecidos

\* The text with its letters (all of them, or those of the first word) in
\* upper case.
Caixa(t, modo) ==
    [i \in 1..Len(t) |->
        IF t[i].letras \in SemCaixa \/ modo = "min" \/ (modo = "ini" /\ i > 1)
        THEN t[i]
        ELSE [t[i] EXCEPT !.maiuscula = TRUE]]

Brancos(n) == [i \in 1..n |-> Branco]

CelulasTexto ==
    {[tipo |-> "str", texto |-> Brancos(a) \o Caixa(b, modo) \o Brancos(d), valor |-> NaNf] :
        a \in 0..MaxBrancos, d \in 0..MaxBrancos, b \in BasesTexto,
        modo \in {"min", "mai", "ini"}}

CelulasNumero ==
    {[tipo |-> ReprNumeros[i].tipo, texto |-> <<>>, valor |-> ReprNumeros[i].valor] :
        i \in 1..Len(ReprNumeros)}

InitMapa ==
    /\ ResParado
    /\ PipeParado
    /\ LinhasParadas
    /\ JusanteParado
    /\ DropnaParado
    /\ MainParado
    /\ pc_mapa = "inicio"
    /\ celula \in {CelulaAusente} \cup CelulasTexto \cup CelulasNumero
    /\ mapeado = NaNf

\* One call; the function assigns nothing but its result.
Mapear ==
    /\ pc_mapa = "inicio"
    /\ mapeado' = mapear_valor(celula)
    /\ pc_mapa' = "feito"
    /\ UNCHANGED <<celula, varsRes, varsPipe, varsLinhas, varsJusante, varsDropna, varsMain>>

NextMapa == Mapear

SpecMapa == InitMapa /\ [][NextMapa]_vars

\* ---- claims about the value normalizer

\* The ways a text is written in a cell: blanks before and after it, its
\* letters in lower case, in upper case, or the first word in upper case.
Escritas(b) ==
    {Brancos(a) \o Caixa(b, modo) \o Brancos(d) :
        a \in 0..MaxBrancos, d \in 0..MaxBrancos, modo \in {"min", "mai", "ini"}}

ChavesLikert == {likert[i].chave : i \in 1..Len(likert)}

TextosNumericos == {NumeraisFloat[i].texto : i \in 1..Len(NumeraisFloat)}

\* C11: a missing cell gives missing; a text of the positive vocabulary,
\* however it is written, gives 1.0, one of the negative vocabulary 0.0; the
\* text "3.5" and the float 3.5 give 3.5; a text in no vocabulary that is not
\* a numeral gives missing; and nothing but the result is written.
MapearContrato ==
    pc_mapa = "feito" =>
        /\ celula.tipo = "na" => mapeado = NaNf
        /\ celula.tipo = "str" =>
              /\ \A b \in positivos : celula.texto \in Escritas(b) => mapeado = Num(10)
              /\ \A b \in negativos : celula.texto \in Escritas(b) => mapeado = Num(0)
              /\ celula.texto \in Escritas(Frase(<<"3.5">>)) => mapeado = Num(35)
              /\ \A b \in TextosDesconhecidos :
                    celula.texto \in Escritas(b) => mapeado = NaNf
        /\ (celula.tipo = "float" /\ celula.valor = Num(35)) => mapeado = Num(35)
        /\ log = {}
        /\ disco = DiscoVazio

\* " YES " has been mapped to 1.0.
MapearContratoWitness ==
    /\ pc_mapa = "feito"
    /\ celula.tipo = "str"
    /\ celula.texto = <<Branco, [letras |-> "yes", maiuscula |-> TRUE], Branco>>
    /\ mapeado = Num(10)

\* The value the lookup order gives a text already trimmed and in lower
\* case: the Likert dict, then the binary vocabularies, then the numeric
\* parse, then missing.
ValorPelaOrdem(b) ==
    IF b \in ChavesLikert
    THEN Num(10 * likert[CHOOSE i \in 1..Len(likert) : likert[i].chave = b].valor)
    ELSE IF b \in positivos THEN Num(10)
    ELSE IF b \in negativos THEN Num(0)
    ELSE IF b \in TextosNumericos
    THEN NumeraisFloat[CHOOSE i \in 1..Len(NumeraisFloat) :
                          NumeraisFloat[i].texto = b].valor
    ELSE NaNf

\* C12: every Likert text, with blanks around it and whatever its letter
\* case, is mapped to its fixed integer as a float, and every text is looked
\* up in the Likert dict, then in the binary vocabularies, then parsed as a
\* number, then missing.
MapearLikert ==
    (pc_mapa = "feito" /\ celula.tipo = "str") =>
        /\ \A i \in 1..Len(likert) :
               celula.texto \in Escritas(likert[i].chave) =>
                  mapeado = Num(10 * likert[i].valor)
        /\ \A b \in BasesTexto :
               celula.texto \in Escritas(b) => mapeado = ValorPelaOrdem(b)

\* " Strongly agree" has been mapped to 4.0.
MapearLikertWitness ==
    /\ pc_mapa = "feito"
    /\ celula.tipo = "str"
    /\ celula.texto = <<Branco, [letras |-> "strongly", maiuscula |-> TRUE],
                        Branco, Peca("agree")>>
    /\ mapeado = Num(40)

\* ----------------------------------------- stage 5: the values of the rows

\* Greatest common divisor of two naturals, the first positive.
RECURSIVE MDC(_, _)
MDC(a, b) == IF b = 0 THEN a ELSE MDC(b, a % b)

\* A float of the table: NaN, or the number num/den in lowest terms.  The
\* arithmetic is exact; the rounding of binary floats is not represented.
NaNq == [nan |-> TRUE, num |-> 0, den |-> 1]

Q(n, d) ==
    LET g == MDC(d, IF n < 0 THEN -n ELSE n)
    IN [nan |-> FALSE, num |-> n \div g, den |-> d \div g]

Qsoma(a, b) == Q(a.num * b.den + b.num * a.den, a.den * b.den)

Qmenor(a, b) == a.num * b.den < b.num * a.den

\* a - b and a / b on floats: NaN when an operand is NaN.
Qsub(a, b) ==
    IF a.nan \/ b.nan THEN NaNq ELSE Q(a.num * b.den - b.num * a.den, a.den * b.den)

Qdiv(a, b) ==
    IF a.nan \/ b.nan
    THEN NaNq
    ELSE IF b.num > 0 THEN Q(a.num * b.den, a.den * b.num)
                      ELSE Q(-(a.num * b.den), a.den * (-b.num))

\* astype(float) of a value _mapear_valor returned.  The answers of the
\* tables studied here are never mapped to an infinity.
ParaFloat(f) == IF f.tipo = "nan" THEN NaNq ELSE Q(f.decimos, 10)

RECURSIVE SomaValidos(_, _)
\* Sum of the values of the row under the names, NaN skipped.
SomaValidos(linha, nomes) ==
    IF nomes = <<>>
    THEN Q(0, 1)
    ELSE LET resto == SomaValidos(linha, Tail(nomes))
         IN IF linha[Head(nomes)].nan THEN resto ELSE Qsoma(linha[Head(nomes)], resto)

Validos(linha, nomes) == {i \in 1..Len(nomes) : ~linha[nomes[i]].nan}

\* A row-wise mean that counts a missing item as zero.
MediaComZeros(linha, nomes) ==
    Qdiv(SomaValidos(linha, nomes), Q(Len(nomes), 1))

\* .mean(axis=1, skipna=True) on one row: NaN when every item is NaN.
MediaLinha(linha, nomes) ==
    IF Validos(linha, nomes) = {}
    THEN NaNq
    ELSE Qdiv(SomaValidos(linha, nomes), Q(Cardinality(Validos(linha, nomes)), 1))

\* An inversion that returns the mean as it is.
SemInverter(q) == q

\* 5 - media (lines 177, 185).
Inverter(q) == Qsub(Q(5, 1), q)

\* Series.min() and Series.max(): over the values that are not NaN, NaN when
\* there is none.
Minimo(serie) ==
    LET validos == {r \in DOMAIN serie : ~serie[r].nan}
    IN IF validos = {}
       THEN NaNq
       ELSE serie[CHOOSE r \in validos : \A o \in validos : ~Qmenor(serie[o], serie[r])]

Maximo(serie) ==
    LET validos == {r \in DOMAIN serie : ~serie[r].nan}
    IN IF validos = {}
       THEN NaNq
       ELSE serie[CHOOSE r \in validos : \A o \in validos : ~Qmenor(serie[r], serie[o])]

\* A normalization that divides by the maximum alone.
PadronizarPeloMaximo(serie) ==
    [r \in DOMAIN serie |-> Qdiv(serie[r], Maximo(serie))]

\* Step 5 (lines 211-217): min-max scaling, the series itself when the
\* minimum or the maximum is NaN or they are equal.
Padronizar(serie) ==
    LET minimo == Minimo(serie)
        maximo == Maximo(serie)
    IN IF ~minimo.nan /\ ~maximo.nan /\ maximo # minimo
       THEN [r \in DOMAIN serie |-> Qdiv(Qsub(serie[r], minimo), Qsub(maximo, minimo))]
       ELSE serie

\* ------------------------------------- the indices of a table of answers

Respondentes == {"r1", "r2", "r3"}

\* The columns of the table: two target items, two workload items and one
\* climate item.
ColunasTabela ==
    <<<<"TC199Q01HA">>, <<"TC199Q02HA">>, <<"TC028Q01NA">>, <<"TC028Q02NA">>,
      <<"TC170Q01HA">>>>

CelTexto(t) == [tipo |-> "str", texto |-> t, valor |-> NaNf]

\* The answers found in each column: left blank, a Likert text in some
\* spelling, a text the normalizer does not recognise.
CelulasColuna ==
    [c \in Elementos(ColunasTabela) |->
        CASE c = <<"TC199Q01HA">> ->
                {CelulaAusente, CelTexto(Caixa(Frase(<<"strongly", "disagree">>), "ini")),
                 CelTexto(Frase(<<"strongly", "agree">>))}
          [] c = <<"TC199Q02HA">> ->
                {CelTexto(Frase(<<"abc">>)), CelTexto(Frase(<<"agree">>) \o <<Branco>>)}
          [] c = <<"TC028Q01NA">> ->
                {CelulaAusente, CelTexto(Frase(<<"to", "some", "extent">>))}
          [] c = <<"TC028Q02NA">> ->
                {CelulaAusente, CelTexto(Caixa(Frase(<<"not", "at", "all">>), "mai"))}
          [] OTHER ->
                {CelulaAusente, CelTexto(Frase(<<"disagree">>))}]

\* The rows a respondent can have.
LinhasTabela ==
    {[c \in Elementos(ColunasTabela) |->
         CHOOSE x \in {v1, v2, v3, v4, v5} :
            \E i \in 1..5 : ColunasTabela[i] = c /\ x = <<v1, v2, v3, v4, v5>>[i]] :
        v1 \in CelulasColuna[ColunasTabela[1]], v2 \in CelulasColuna[ColunasTabela[2]],
        v3 \in CelulasColuna[ColunasTabela[3]], v4 \in CelulasColuna[ColunasTabela[4]],
        v5 \in CelulasColuna[ColunasTabela[5]]}

\* The names transformar_dados resolves for each group on the table.
NomesTabela == NomesReais(ColunasTabela)

\* Line 158 on one row: .map(_mapear_valor).astype(float)
SubLinha ==
    [l \in LinhasTabela |->
        [c \in ColunasParaMapear(NomesTabela) |-> ParaFloat(mapear_valor(l[c]))]]

InitLinhas ==
    /\ ResParado
    /\ PipeParado
    /\ MapaParado
    /\ JusanteParado
    /\ DropnaParado
    /\ MainParado
    /\ pc_lin = "inicio"
    /\ tabela \in [Respondentes -> LinhasTabela]
    /\ calc = <<>>

\* A second table: one item of the target and of the workload, climate and
\* cooperation groups, two training items and two satisfaction items, the
\* second of them negatively worded.
ColunasItens ==
    <<<<"TC199Q01HA">>, <<"TC045Q01NB">>, <<"TC045Q02NB">>, <<"TC028Q01NA">>,
      <<"TC170Q01HA">>, <<"TC046Q04NA">>, <<"TC198Q01HA">>, <<"TC198Q03HA">>>>

RespondentesItens == {"r1", "r2"}

\* The answers found in each column: left blank or one recognised text.
CelulasItens ==
    [c \in Elementos(ColunasItens) |->
        {CelulaAusente,
         CelTexto(CASE c = <<"TC045Q01NB">> -> Caixa(Frase(<<"checked">>), "ini")
                    [] c = <<"TC045Q02NB">> -> Caixa(Frase(<<"not", "checked">>), "ini")
                    [] c = <<"TC028Q01NA">> -> Frase(<<"very", "little">>)
                    [] c = <<"TC170Q01HA">> -> Frase(<<"disagree">>)
                    [] c = <<"TC046Q04NA">> -> Frase(<<"several", "times", "a", "week">>)
                    [] c = <<"TC198Q03HA">> -> Frase(<<"strongly", "agree">>)
                    [] OTHER -> Frase(<<"agree">>))}]

\* The rows a respondent of the second table can have.
LinhasItens ==
    {[c \in Elementos(ColunasItens) |->
         CHOOSE x \in {v1, v2, v3, v4, v5, v6, v7, v8} :
            \E i \in 1..8 :
               ColunasItens[i] = c /\ x = <<v1, v2, v3, v4, v5, v6, v7, v8>>[i]] :
        v1 \in CelulasItens[ColunasItens[1]], v2 \in CelulasItens[ColunasItens[2]],
        v3 \in CelulasItens[ColunasItens[3]], v4 \in CelulasItens[ColunasItens[4]],
        v5 \in CelulasItens[ColunasItens[5]], v6 \in CelulasItens[ColunasItens[6]],
        v7 \in CelulasItens[ColunasItens[7]], v8 \in CelulasItens[ColunasItens[8]]}

NomesItens == NomesReais(ColunasItens)

\* Line 158 on one row of the second table.
SubLinhaItens ==
    [l \in LinhasItens |->
        [c \in ColunasParaMapear(NomesItens) |-> ParaFloat(mapear_valor(l[c]))]]

InitItens ==
    /\ ResParado
    /\ PipeParado
    /\ MapaParado
    /\ JusanteParado
    /\ DropnaParado
    /\ MainParado
    /\ pc_lin = "inicio"
    /\ tabela \in [RespondentesItens -> LinhasItens]
    /\ calc = <<>>

\* Whether the table is one of the second kind.
DeItens(tab) == DOMAIN tab = RespondentesItens

\* Lines 138-144: the names resolved on the columns of the table.
NomesDe(tab) == IF DeItens(tab) THEN NomesItens ELSE NomesTabela

\* Line 158: df[colunas_para_mapear].map(_mapear_valor).astype(float)
SubTabela(tab) ==
    [r \in DOMAIN tab |-> IF DeItens(tab) THEN SubLinhaItens[tab[r]] ELSE SubLinha[tab[r]]]

\* A sum that is NaN on a row whose items are all NaN.
SomaOuNaN(linha, nomes) ==
    IF Validos(linha, nomes) = {} THEN NaNq ELSE SomaValidos(linha, nomes)

\* .sum(axis=1, skipna=True) on one row (line 170): 0 when every item is NaN.
SomaLinha(linha, nomes) == SomaValidos(linha, nomes)

\* An inversion of every satisfaction item.
InverterTodas(linha, nomes_sat, nomes_neg) ==
    [c \in Elementos(nomes_sat) |-> Qsub(Q(5, 1), linha[c])]

\* Lines 198-201: sub.reindex(columns=nomes_satisfacao).copy() with each
\* column of nomes_satisfacao_neg found in it replaced by 5 minus its value.
InverterNegativas(linha, nomes_sat, nomes_neg) ==
    [c \in Elementos(nomes_sat) |->
        IF c \in Elementos(nomes_neg) THEN Qsub(Q(5, 1), linha[c]) ELSE linha[c]]

\* The column of an index that step 4 did not create.
SemColuna == <<>>

\* Lines 157-217 on the rows: the normalized items, the six indices, the
\* min-max scaled target and the columns of the answers in the dataset
\* returned, which no step assigns to.
CalcularIndices ==
    /\ pc_lin = "inicio"
    /\ \E nomes \in {NomesDe(tabela)} :
       \E sub \in {SubTabela(tabela)} :
       \E ia \in {[r \in DOMAIN tabela |-> MediaLinha(sub[r], nomes.autoeficacia)]} :
          calc' = [sub   |-> sub,
                   alvo  |-> ia,
                   formacao |->
                       IF nomes.formacao # <<>>
                       THEN [r \in DOMAIN tabela |-> SomaLinha(sub[r], nomes.formacao)]
                       ELSE SemColuna,
                   carga |->
                       IF nomes.carga # <<>>
                       THEN [r \in DOMAIN tabela |->
                                Inverter(MediaLinha(sub[r], nomes.carga))]
                       ELSE SemColuna,
                   clima |->
                       IF nomes.clima # <<>>
                       THEN [r \in DOMAIN tabela |->
                                Inverter(MediaLinha(sub[r], nomes.clima))]
                       ELSE SemColuna,
                   cooperacao |->
                       IF nomes.cooperacao # <<>>
                       THEN [r \in DOMAIN tabela |->
                                MediaLinha(sub[r], nomes.cooperacao)]
                       ELSE SemColuna,
                   satisfacao |->
                       IF nomes.satisfacao # <<>>
                       THEN [r \in DOMAIN tabela |->
                                MediaLinha(InverterNegativas(sub[r], nomes.satisfacao,
                                                             nomes.satisfacao_neg),
                                           nomes.satisfacao)]
                       ELSE SemColuna,
                   norm  |-> Padronizar(ia),
                   df    |-> tabela]
    /\ pc_lin' = "feito"
    /\ UNCHANGED <<tabela, varsRes, varsPipe, varsMapa, varsJusante, varsDropna, varsMain>>

NextItens == CalcularIndices

SpecItens == InitItens /\ [][NextItens]_vars

NextLinhas == CalcularIndices

SpecLinhas == InitLinhas /\ [][NextLinhas]_vars

\* ------------------------------------------ claims on the row-level indices

Calculado == pc_lin = "feito"

Vezes(a, b) == Q(a.num * b.num, a.den * b.den)

MenorOuIgual(a, b) == a.num * b.den <= b.num * a.den

\* The respondents whose target index is defined.
ComAlvo == {r \in Respondentes : ~calc.alvo[r].nan}

AlvoVaria == \E r \in ComAlvo : \E o \in ComAlvo : calc.alvo[r] # calc.alvo[o]

\* C13: when the target index takes two different values, every defined
\* value of indice_autoeficacia_norm lies in [0,1] and, multiplied by
\* (max - min) and added to min, gives back the row's index, and a row with
\* no index has no normalized value; when the index takes one value or none,
\* indice_autoeficacia_norm is indice_autoeficacia row for row.
NormalizadoMinMax ==
    Calculado =>
        IF AlvoVaria
        THEN \E lo \in ComAlvo : \E hi \in ComAlvo :
                /\ \A o \in ComAlvo :
                      /\ MenorOuIgual(calc.alvo[lo], calc.alvo[o])
                      /\ MenorOuIgual(calc.alvo[o], calc.alvo[hi])
                /\ \A r \in Respondentes :
                      IF calc.alvo[r].nan
                      THEN calc.norm[r].nan
                      ELSE /\ ~calc.norm[r].nan
                           /\ MenorOuIgual(Q(0, 1), calc.norm[r])
                           /\ MenorOuIgual(calc.norm[r], Q(1, 1))
                           /\ Qsoma(Vezes(calc.norm[r],
                                          Qsub(calc.alvo[hi], calc.alvo[lo])),
                                    calc.alvo[lo]) = calc.alvo[r]
        ELSE calc.norm = calc.alvo

\* Three different index values: one row is scaled strictly inside (0,1).
NormalizadoMinMaxWitness ==
    /\ Calculado
    /\ AlvoVaria
    /\ \E r \in Respondentes :
          /\ ~calc.norm[r].nan
          /\ Qmenor(Q(0, 1), calc.norm[r])
          /\ Qmenor(calc.norm[r], Q(1, 1))

\* The raw row-wise mean of a group, stated by its defining equation:
\* mean * (number of defined items) = sum of the defined items.
MediaBrutaDe(q, linha, nomes) ==
    /\ ~q.nan
    /\ Vezes(q, Q(Cardinality(Validos(linha, nomes)), 1)) = SomaValidos(linha, nomes)

InvertidoDe(indice, linha, nomes) ==
    IF Validos(linha, nomes) = {}
    THEN indice.nan
    ELSE /\ ~indice.nan
         /\ \E bruta \in {MediaLinha(linha, nomes)} :
               /\ MediaBrutaDe(bruta, linha, nomes)
               /\ Qsoma(indice, bruta) = Q(5, 1)

\* C14: carga_trabalho_media and clima_media are 5 minus the raw row mean of
\* the group's normalized items in every row where that mean is defined, and
\* missing in every row where it is missing.
IndicesInvertidos ==
    Calculado =>
        \A r \in Respondentes :
            /\ InvertidoDe(calc.carga[r], calc.sub[r], NomesTabela.carga)
            /\ InvertidoDe(calc.clima[r], calc.sub[r], NomesTabela.clima)

\* One row with a defined workload mean that differs from its inversion and
\* one row where the workload mean is missing.
IndicesInvertidosWitness ==
    /\ Calculado
    /\ \E r \in Respondentes :
          /\ Cardinality(Validos(calc.sub[r], NomesTabela.carga)) = 2
          /\ calc.carga[r] = Q(3, 1)
          /\ calc.clima[r] = Q(3, 1)
    /\ \E r \in Respondentes :
          /\ Validos(calc.sub[r], NomesTabela.carga) = {}
          /\ calc.carga[r].nan

\* The target items of a respondent answered with a value the normalizer
\* recognises.
Reconhecidas(r) ==
    {i \in 1..Len(NomesTabela.autoeficacia) :
        mapear_valor(tabela[r][NomesTabela.autoeficacia[i]]).tipo # "nan"}

NegativasDaTabela ==
    {c \in Elementos(NomesItens.satisfacao) :
        c[1] \in {"TC198Q03HA", "TC198Q04HA", "TC198Q06HA"}}

\* The satisfaction items of a row as the claim describes them.
ItensSatisfacao(linha) ==
    [c \in Elementos(NomesItens.satisfacao) |->
        IF c \in NegativasDaTabela THEN Inverter(linha[c]) ELSE linha[c]]

\* C23: satisfacao_media of a row is the mean, over the non-missing ones, of
\* the resolved satisfaction items with exactly the negatively worded columns
\* replaced by 5 minus their normalized value, missing when all are missing;
\* the normalized items and the answers in the returned dataset keep their
\* values.
SatisfacaoInverteNegativas ==
    (Calculado /\ DeItens(tabela)) =>
        \A r \in DOMAIN tabela :
            /\ IF Validos(calc.sub[r], NomesItens.satisfacao) = {}
               THEN calc.satisfacao[r].nan
               ELSE MediaBrutaDe(calc.satisfacao[r], ItensSatisfacao(calc.sub[r]),
                                 NomesItens.satisfacao)
            /\ \A c \in Elementos(NomesItens.satisfacao) :
                  /\ calc.df[r][c] = tabela[r][c]
                  /\ calc.sub[r][c] = ParaFloat(mapear_valor(tabela[r][c]))

\* A row answering "agree" (3) to the positive item and "strongly agree" (4)
\* to the negative one has the mean of 3 and 1, beside a row answering only
\* the negative item, whose index is 1.
SatisfacaoInverteNegativasWitness ==
    /\ Calculado
    /\ DeItens(tabela)
    /\ NegativasDaTabela = {<<"TC198Q03HA">>}
    /\ \E r \in DOMAIN tabela :
          /\ calc.sub[r][<<"TC198Q01HA">>] = Q(3, 1)
          /\ calc.sub[r][<<"TC198Q03HA">>] = Q(4, 1)
          /\ calc.satisfacao[r] = Q(2, 1)
    /\ \E r \in DOMAIN tabela :
          /\ calc.sub[r][<<"TC198Q01HA">>].nan
          /\ calc.sub[r][<<"TC198Q03HA">>] = Q(4, 1)
          /\ calc.satisfacao[r] = Q(1, 1)

\* The normalized items of a group that a respondent left without a value.
TodosAusentes(r, nomes) == \A i \in 1..Len(nomes) : calc.sub[r][nomes[i]].nan

AlvoCenario ==
    SubSeq(colunas_autoeficacia_codigos, 1, 5)

\* Ten numeric predictor columns: columns no group claims; two items of each
\* predictor group; the same with the control in place of the last item.
PreditoresAvulsos ==
    <<<<"x01">>, <<"x02">>, <<"x03">>, <<"x04">>, <<"x05">>,
      <<"x06">>, <<"x07">>, <<"x08">>, <<"x09">>, <<"x10">>>>

PreditoresDosGrupos ==
    SubSeq(colunas_formacao_codigos, 1, 2) \o SubSeq(colunas_carga_codigos, 1, 2)
        \o SubSeq(colunas_clima_codigos, 1, 2) \o SubSeq(colunas_cooperacao_codigos, 1, 2)
        \o SubSeq(colunas_satisfacao_codigos, 1, 2)

PreditoresComControle ==
    SubSeq(PreditoresDosGrupos, 1, 9) \o controles

EntradasCenario ==
    {[colunas |-> AlvoCenario \o preditores, numericas |-> Elementos(preditores)] :
        preditores \in {PreditoresAvulsos, PreditoresDosGrupos, PreditoresComControle}}

\* A run where every row survives the dropna and the metrics take two
\* values; each candidate fits or raises.
AmbienteCenario ==
    [linhas        |-> {MaxLinhas},
     r2cv          |-> {Valor(0), Valor(1)},
     rmse          |-> {Valor(0)},
     ols           |-> {Valor(0)},
     modos_ols     |-> {"formula", "None"},
     passos_rf     |-> {"dump"},
     graficos      |-> {"ok"},
     max_ajustados |-> Len(Candidatos)]

InitCenario ==
    /\ ResParado
    /\ OutrosParados
    /\ pc = "transformar"
    /\ entrada \in EntradasCenario
    /\ df = entrada
    /\ nomes_grupo = NomesVazios
    /\ erro5 = "nenhum"
    /\ alvo = <<>>
    /\ X_cols = <<>>
    /\ n_linhas = -1
    /\ log = {}
    /\ disco = DiscoVazio
    /\ retorno = "nenhum"
    /\ resultados = <<>>
    /\ modelo_ols = "None"
    /\ tentados = {}
    /\ falhas = {}
    /\ capturadas = {}

NextCenario ==
    \/ transformar_dados
    \/ AjustarInicio(AmbienteCenario)
    \/ AjustarOLS(AmbienteCenario)
    \/ AjustarInteracao(AmbienteCenario)
    \/ AjustarHuber(AmbienteCenario)
    \/ AjustarPolinomial(AmbienteCenario)
    \/ AjustarRandomForest(AmbienteCenario)
    \/ AjustarGradientBoosting(AmbienteCenario)
    \/ Selecao

SpecCenario == InitCenario /\ [][NextCenario]_vars

\* The predictor columns of the input: the columns outside the target group.
PreditoresFornecidos == Elementos(entrada.colunas) \ Elementos(AlvoCenario)

\* C16: on a table with five Likert target columns and ten numeric predictor
\* columns, a run in which no candidate raises ends with ajustar_modelo
\* returning and a record whose features list has one entry per predictor
\* column, ten in all, and is the list the candidates were fitted on.
FeaturesUmaPorPreditor ==
    (pc = "fim" /\ falhas = {}) =>
        /\ retorno # "ValueError"
        /\ disco.melhor_json.origem = "execucao"
        /\ disco.melhor_json.conteudo.features = X_cols
        /\ Len(disco.melhor_json.conteudo.features) = Cardinality(PreditoresFornecidos)

\* ------------------------------------------- stage 9: refinar_conhecimento

\* Line 53: the winners ranked by feature importances.
modelos_de_importancia == <<"RandomForestRegressor", "GradientBoostingRegressor">>

\* The number of importances of the forest in an estimator file: the forest
\* of this run was fitted on X_cols, the one an earlier run left on the
\* features of that run's record.
NumImportancias(arq) ==
    IF arq.origem = "execucao"
    THEN Len(X_cols)
    ELSE Len(DiscoAnterior.melhor_json.conteudo.features)

\* Lines 131-132: meta['alvo_media'] and meta['alvo_n_validos'] are set, the
\* other keys keep their values.
MetaEnriquecida(meta) ==
    [k \in DOMAIN meta \cup {"alvo_media", "alvo_n_validos"} |->
        IF k = "alvo_media" THEN "media do alvo"
        ELSE IF k = "alvo_n_validos" THEN "n validos"
        ELSE meta[k]]

\* A file opened for writing whose write did not end: open(..., 'w') has
\* emptied it and json.dump wrote some prefix of the text.
ArquivoTruncado == Arquivo("truncado", <<>>)

\* The outcomes of section 6 (lines 116-143): the record is rewritten; an
\* exception is raised before the file is opened for writing; an exception
\* is raised by the write after the file was opened.
ResultadosEnriquecimento == {"ok", "falha_antes", "falha_escrita"}

\* Lines 153-157 and main's except (line 181): the exception is logged and
\* raised again, and main logs it and stops.
Levanta9(excecao) ==
    /\ retorno9' = excecao
    /\ log' = log \cup {<<"erro", "Falha na Etapa 9">>, <<"erro", "Erro no pipeline">>}
    /\ pc_jus' = "fim"
    /\ UNCHANGED <<fonte9, tabelas9, disco, capturadas>>

\* Lines 87-151: the table of variables is saved, the target summary is
\* added to the record when the target is a column of respostas, and the
\* list of relevant variables is returned.
Conclui9(logica, estimador, meta) ==
    /\ fonte9' = Fonte(logica, estimador)
    /\ tabelas9' =
          IF logica = "importancias"
          THEN [tabelas9 EXCEPT !.importancia_rf = Arquivo("execucao", logica)]
          ELSE [tabelas9 EXCEPT !.significativas_ols = Arquivo("execucao", logica)]
    /\ \E relatorio \in {<<"aviso", "Nenhuma variavel relevante">>,
                         <<"info", "Variaveis relevantes identificadas">>} :
       IF meta.alvo \in Elementos(df.colunas)
       THEN \E enriquecimento \in ResultadosEnriquecimento :
               IF enriquecimento = "ok"
               THEN /\ disco' = [disco EXCEPT !.melhor_json =
                                    Arquivo("execucao", MetaEnriquecida(meta))]
                    /\ log' = log \cup {relatorio, <<"info", "Media do alvo adicionada">>}
                    /\ UNCHANGED capturadas
               ELSE /\ disco' = IF enriquecimento = "falha_escrita"
                                THEN [disco EXCEPT !.melhor_json = ArquivoTruncado]
                                ELSE disco
                    /\ log' = log \cup {relatorio,
                                        <<"aviso", "Analise complementar ignorada">>}
                    /\ capturadas' = capturadas \cup {"complementar_etapa9"}
       ELSE /\ log' = log \cup {relatorio}
            /\ UNCHANGED <<disco, capturadas>>
    /\ retorno9' = "ok"
    /\ pc_jus' = "etapa10"

\* refinar_conhecimento(modelo_ols, respostas), called by main after
\* ajustar_modelo returned the OLS model.
refinar_conhecimento ==
    /\ pc_jus = "etapa9"
    /\ pc = "fim"
    /\ retorno = "ok"
    /\ IF disco.melhor_json.origem = "ausente"
       THEN Levanta9("FileNotFoundError")
       ELSE \E meta \in {disco.melhor_json.conteudo} :
            IF meta.melhor_modelo \in Elementos(modelos_de_importancia)
            THEN IF \/ "caminho_modelo_salvo" \notin DOMAIN meta
                    \/ disco.joblib.origem = "ausente"
                 THEN Levanta9("FileNotFoundError")
                 ELSE IF NumImportancias(disco.joblib) # Len(meta.features)
                 THEN Levanta9("ValueError")
                 ELSE Conclui9("importancias", disco.joblib, meta)
            ELSE IF modelo_ols = "None"
                 THEN Levanta9("ValueError")
                 ELSE Conclui9("pvalores", Arquivo("ausente", <<>>), meta)
    /\ UNCHANGED <<pc, entrada, df, nomes_grupo, erro5, alvo, X_cols, n_linhas,
                   retorno, resultados, modelo_ols, tentados, falhas, retorno10,
                   varsRes, varsMapa, varsLinhas, varsDropna, varsMain>>

\* ------------------------------------------ stage 10: gerar_recomendacoes

\* _encontrar_csv_relevancia: the importance table when it exists, else the
\* significance table, else "nenhum" for the FileNotFoundError.
encontrar_csv_relevancia ==
    IF tabelas9.importancia_rf.origem # "ausente" THEN "rf"
    ELSE IF tabelas9.significativas_ols.origem # "ausente" THEN "ols"
    ELSE "nenhum"

\* gerar_recomendacoes(cenario, modelo_ols, respostas), called by main after
\* refinar_conhecimento returned.  The complementary analysis (lines 112-129)
\* runs in its own try block, whose except clause is a bare pass.
gerar_recomendacoes ==
    /\ pc_jus = "etapa10"
    /\ pc_jus' = "fim"
    /\ IF encontrar_csv_relevancia = "nenhum" \/ disco.ols_csv.origem = "ausente"
       THEN /\ retorno10' = "FileNotFoundError"
            /\ log' = log \cup {<<"erro", "Falha na Etapa 10">>, <<"erro", "Erro no pipeline">>}
            /\ UNCHANGED <<tabelas9, capturadas>>
       ELSE /\ retorno10' = "ok"
            /\ tabelas9' = [tabelas9 EXCEPT !.recomendacoes =
                               Arquivo("execucao", encontrar_csv_relevancia)]
            /\ log' = log \cup {<<"info", "Recomendacoes geradas">>}
            /\ \E complementar \in {"ok", "falha"} :
                  capturadas' = IF complementar = "falha"
                                THEN capturadas \cup {"complementar_etapa10"}
                                ELSE capturadas
    /\ UNCHANGED <<pc, entrada, df, nomes_grupo, erro5, alvo, X_cols, n_linhas,
                   disco, retorno, resultados, modelo_ols, tentados, falhas,
                   retorno9, fonte9, varsRes, varsMapa, varsLinhas, varsDropna, varsMain>>

\* ------------------------------------- main from stage 7 to stage 10

\* The tables an earlier run left behind, its winner the random forest.
TabelasAnteriores ==
    [TabelasVazias EXCEPT !.importancia_rf = Arquivo("anterior", "importancias"),
                          !.recomendacoes  = Arquivo("anterior", "rf")]

\* A run whose plots can fail and whose metrics take two values.
AmbienteJusante ==
    [linhas        |-> {MaxLinhas},
     r2cv          |-> {Valor(0), Valor(1)},
     rmse          |-> {Valor(0)},
     ols           |-> {Valor(0)},
     modos_ols     |-> {"formula", "matriz", "None"},
     passos_rf     |-> {"refit", "pdp", "dump"},
     graficos      |-> {"ok", "falha"},
     max_ajustados |-> Len(Candidatos)]

\* The state in which main calls ajustar_modelo, on a fresh results folder
\* or on the one an earlier run left.
InitJusante ==
    /\ ResParado
    /\ MapaParado
    /\ LinhasParadas
    /\ DropnaParado
    /\ MainParado
    /\ pc = "ajustar"
    /\ entrada = [colunas |-> SubSequencia(UniversoColunas, 1..7),
                  numericas |-> {<<"TC002Q01NA">>}]
    /\ nomes_grupo = NomesReais(entrada.colunas)
    /\ df = SaidaTransformar(entrada, nomes_grupo)
    /\ erro5 = "ok"
    /\ alvo = <<>>
    /\ X_cols = <<>>
    /\ n_linhas = -1
    /\ log = {}
    /\ \E anterior \in BOOLEAN :
          /\ disco = [(IF anterior THEN DiscoAnterior ELSE DiscoVazio)
                         EXCEPT !.composicao = Arquivo("execucao", Composicao(nomes_grupo))]
          /\ tabelas9 = IF anterior THEN TabelasAnteriores ELSE TabelasVazias
    /\ retorno = "nenhum"
    /\ resultados = <<>>
    /\ modelo_ols = "None"
    /\ tentados = {}
    /\ falhas = {}
    /\ capturadas = {}
    /\ pc_jus = "etapa9"
    /\ retorno9 = "nenhum"
    /\ fonte9 = FonteNenhuma
    /\ retorno10 = "nenhum"

NextJusante ==
    \/ AjustarInicio(AmbienteJusante)
    \/ AjustarOLS(AmbienteJusante)
    \/ AjustarInteracao(AmbienteJusante)
    \/ AjustarHuber(AmbienteJusante)
    \/ AjustarPolinomial(AmbienteJusante)
    \/ AjustarRandomForest(AmbienteJusante)
    \/ AjustarGradientBoosting(AmbienteJusante)
    \/ Selecao
    \/ refinar_conhecimento
    \/ gerar_recomendacoes

SpecJusante == InitJusante /\ [][NextJusante]_vars

\* ------------------------------------------ claims on stages 7, 9 and 10

\* A step in which an except block caught an exception and execution went on.
PassoComCaptura == capturadas' # capturadas

\* C17: no error is silently swallowed: every step in which an except block
\* catches an exception and continues writes at least one new log line of
\* warning or error level.
NenhumErroEngolido ==
    [][PassoComCaptura =>
          \E e \in log' \ log : e[1] \in {"aviso", "erro"}]_vars

\* The step in which refinar_conhecimento runs, from its call to its end.
PassoEtapa9 == retorno9 = "nenhum" /\ retorno9' # "nenhum"

\* C18: refinar_conhecimento leaves every field ajustar_modelo wrote in the
\* record unchanged when it adds the target summary, and leaves the record
\* as it was when the enrichment fails or is skipped.
RegistroPreservado ==
    [][PassoEtapa9 =>
          IF <<"info", "Media do alvo adicionada">> \in log'
          THEN /\ disco'.melhor_json.origem = "execucao"
               /\ DOMAIN disco'.melhor_json.conteudo =
                     DOMAIN disco.melhor_json.conteudo \cup {"alvo_media", "alvo_n_validos"}
               /\ \A k \in DOMAIN disco.melhor_json.conteudo :
                     disco'.melhor_json.conteudo[k] = disco.melhor_json.conteudo[k]
          ELSE disco'.melhor_json = disco.melhor_json]_vars

\* C20: refinar_conhecimento returns without raising on every record
\* ajustar_modelo can have written: with a tree ensemble as winner it ranks
\* by the importances of the estimator this run saved, with any other winner
\* by the OLS p-values.
RefinamentoTrataTodoVencedor ==
    [][PassoEtapa9 =>
          /\ retorno9' = "ok"
          /\ IF disco.melhor_json.conteudo.melhor_modelo \in Elementos(modelos_de_importancia)
             THEN /\ fonte9'.logica = "importancias"
                  /\ fonte9'.estimador = Arquivo("execucao",
                                                 disco.melhor_json.conteudo.melhor_modelo)
             ELSE fonte9'.logica = "pvalores"]_vars

\* ------------------------------------- claims on the OLS candidate

\* The rows of the comparison set that carry a name.
LinhasDe(nome) == {i \in 1..Len(resultados) : resultados[i].modelo = nome}

\* The OLS block has been left.
OLSTentado == "OLS" \in tentados

\* C21: the name map is on disk, one row per feature in order, from the
\* moment the OLS block is entered; a formula fit that raises is followed by
\* the matrix fit, and when that one succeeds the OLS row is in the
\* comparison set as it is after a formula fit; OLS is left out, with an
\* error logged, exactly when both fits raised.
OLSComFallback ==
    /\ pc \notin {"parado", "transformar", "ajustar"} /\ X_cols # <<>> /\ pc # "fim" =>
          /\ disco.mapa_ols.origem = "execucao"
          /\ Len(disco.mapa_ols.conteudo) = Len(X_cols)
          /\ \A i \in 1..Len(X_cols) : disco.mapa_ols.conteudo[i].original = X_cols[i]
    /\ OLSTentado =>
          /\ modelo_ols \in {"formula", "matriz"} =>
                /\ Cardinality(LinhasDe("OLS")) = 1
                /\ \A i \in LinhasDe("OLS") :
                      /\ i = 1
                      /\ resultados[i].R2_CV = NaN
                      /\ resultados[i].RMSE_CV = NaN
                /\ <<"info", "Modelo OLS ajustado com sucesso">> \in log
                /\ <<"erro", "Falha OLS (formula e matriz)">> \notin log
          /\ modelo_ols = "matriz" => "OLS_formula" \in capturadas
          /\ modelo_ols = "None" =>
                /\ LinhasDe("OLS") = {}
                /\ capturadas \cap {"OLS_formula", "OLS_matriz"} = {"OLS_formula", "OLS_matriz"}
                /\ <<"erro", "Falha OLS (formula e matriz)">> \in log
          /\ LinhasDe("OLS") = {} => modelo_ols = "None"

\* The formula fit raised, the matrix fit succeeded, and the run ended with
\* the OLS row in the comparison set.
OLSComFallbackWitness ==
    /\ pc = "fim"
    /\ modelo_ols = "matriz"
    /\ LinhasDe("OLS") = {1}
    /\ Len(disco.mapa_ols.conteudo) = Len(X_cols)
    /\ retorno = "ok"

\* ------------------------------ stage 7: the rows the candidates are fitted on

\* The target and the features of the table studied.
AlvoTabela7 == IndiceAlvoNorm

FeaturesTabela7 == <<IndiceClima, IndiceCarga>>

\* The rows: the first Len(features) + 10 - 1 are complete, the others hold
\* in each column a number, a missing value or a text that is no number.
LinhasFixas == 1..(Len(FeaturesTabela7) + MargemLinhas - 1)

LinhasVariaveis ==
    (Len(FeaturesTabela7) + MargemLinhas)..(Len(FeaturesTabela7) + MargemLinhas - 1 + MaxIncompletas)

LinhaCompleta ==
    [c \in Elementos(FeaturesTabela7) \cup {AlvoTabela7} |-> "num"]

LinhasPossiveis ==
    {[c \in Elementos(FeaturesTabela7) \cup {AlvoTabela7} |->
         IF c = AlvoTabela7 THEN y ELSE IF c = FeaturesTabela7[1] THEN a ELSE b] :
        y \in {"num", "nan", "txt"}, a \in {"num", "nan", "txt"}, b \in {"num", "nan"}}

\* pd.to_numeric(..., errors="coerce"): a text that is no number becomes NaN.
to_numeric(k) == IF k = "txt" THEN "nan" ELSE k

\* A dropna that looks at the target alone.
DropnaSoAlvo(tab, cols) ==
    {r \in DOMAIN tab : to_numeric(tab[r][AlvoTabela7]) # "nan"}

\* Lines 169-171: pd.concat([X, y], axis=1).dropna(), the rows with no NaN
\* in any of the columns after the coercion.
dropna(tab, cols) ==
    {r \in DOMAIN tab : \A c \in cols : to_numeric(tab[r][c]) # "nan"}

InitDropna ==
    /\ ResParado
    /\ PipeParado
    /\ MapaParado
    /\ LinhasParadas
    /\ JusanteParado
    /\ MainParado
    /\ pc_dn = "preparar"
    /\ \E variaveis \in [LinhasVariaveis -> LinhasPossiveis] :
          respostas7 = [r \in LinhasFixas \cup LinhasVariaveis |->
                           IF r \in LinhasFixas THEN LinhaCompleta ELSE variaveis[r]]
    /\ dados = {}
    /\ usados = <<>>
    /\ erro_dn = "nenhum"

\* Lines 162-178: the coercion, the joint dropna and the test on the number
\* of rows left.
PrepararDados ==
    /\ pc_dn = "preparar"
    /\ \E d \in {dropna(respostas7, Elementos(FeaturesTabela7) \cup {AlvoTabela7})} :
          /\ dados' = d
          /\ IF Cardinality(d) < Len(FeaturesTabela7) + MargemLinhas
             THEN /\ erro_dn' = "ValueError"
                  /\ pc_dn' = "fim"
             ELSE /\ erro_dn' = "nenhum"
                  /\ pc_dn' = "ajustar"
    /\ UNCHANGED <<respostas7, usados, varsRes, varsPipe, varsMapa, varsLinhas, varsJusante,
                   varsMain>>

\* The next candidate in order is given X and y, both taken from dados
\* (lines 177-178; dados_ren for the two formula fits).
AjustarSobreDados ==
    /\ pc_dn = "ajustar"
    /\ usados' = Append(usados, [modelo |-> Candidatos[Len(usados) + 1], linhas |-> dados])
    /\ pc_dn' = IF Len(usados) + 1 = Len(Candidatos) THEN "fim" ELSE "ajustar"
    /\ UNCHANGED <<respostas7, dados, erro_dn, varsRes, varsPipe, varsMapa, varsLinhas,
                   varsJusante, varsMain>>

NextDropna == PrepararDados \/ AjustarSobreDados

SpecDropna == InitDropna /\ [][NextDropna]_vars

\* The rows in which the target and every feature hold a number.
LinhasNumericas ==
    {r \in DOMAIN respostas7 :
        /\ respostas7[r][AlvoTabela7] = "num"
        /\ \A i \in 1..Len(FeaturesTabela7) : respostas7[r][FeaturesTabela7[i]] = "num"}

\* C22: every candidate is fitted on the rows in which the target and every
\* feature are numeric and not missing, the same rows for all; with fewer
\* than len(features) + 10 such rows ajustar_modelo raises and no candidate
\* is fitted.
MesmasLinhasParaTodos ==
    /\ \A i \in 1..Len(usados) : usados[i].linhas = LinhasNumericas
    /\ pc_dn \in {"ajustar", "fim"} =>
          IF Cardinality(LinhasNumericas) < Len(FeaturesTabela7) + MargemLinhas
          THEN erro_dn = "ValueError" /\ usados = <<>> /\ pc_dn = "fim"
          ELSE erro_dn = "nenhum"
    /\ (pc_dn = "fim" /\ erro_dn = "nenhum") =>
          {usados[i].modelo : i \in 1..Len(usados)} = Elementos(Candidatos)

\* Six candidates fitted on a table one row of which was dropped for a text
\* in a feature column.
MesmasLinhasParaTodosWitness ==
    /\ pc_dn = "fim"
    /\ Len(usados) = Len(Candidatos)
    /\ \E r \in DOMAIN respostas7 :
          /\ r \notin usados[1].linhas
          /\ respostas7[r][AlvoTabela7] = "num"
          /\ respostas7[r][FeaturesTabela7[1]] = "txt"
    /\ Cardinality(usados[Len(usados)].linhas) = Len(FeaturesTabela7) + MargemLinhas

\* ------------------------------------------------- main: the eleven stages

\* The respondent files main is followed on: every group and the control; no
\* climate item; no item of the target group; no PISA column at all.
EntradasMain ==
    {[colunas |-> SubSequencia(UniversoColunas, 1..7), numericas |-> {<<"TC002Q01NA">>}],
     [colunas |-> SubSequencia(UniversoColunas, {1, 2, 3, 5, 6, 7}),
      numericas |-> {<<"TC002Q01NA">>}],
     [colunas |-> SubSequencia(UniversoColunas, {2, 3, 7}), numericas |-> {<<"TC002Q01NA">>}],
     [colunas |-> SubSequencia(UniversoColunas, {7}), numericas |-> {<<"TC002Q01NA">>}]}

\* The position of main once it has left its try block.
FimMain == 12

\* A line of main's log: the line closing stage k, or a line of main's own
\* (etapa 0).
Linha(tipo, k, texto) == [tipo |-> tipo, etapa |-> k, texto |-> texto]

Concluida(k) == Linha("info", k, "concluida")

\* Line 182: logging.error("[ERRO FATAL] Falha na execucao do pipeline: ...")
ErroFatal == Linha("erro", 0, "ERRO FATAL")

InitMain ==
    /\ ResParado
    /\ PipeParado
    /\ MapaParado
    /\ LinhasParadas
    /\ JusanteParado
    /\ DropnaParado
    /\ pc_main = 1
    /\ args \in [no_llm : BOOLEAN, ETAPA11_DISPONIVEL : BOOLEAN]
    /\ executadas = <<>>
    /\ levantou = 0
    /\ objetos = <<>>
    /\ respostas = 0
    /\ retornado5 = NadaRetornado
    /\ log_main = <<>>

\* Where main goes on when the call of stage k leaves by an exception: the
\* stage that follows it.
DepoisDeLevantarSegue(k) == k + 1

\* Where main goes on when the call of stage k leaves by an exception: out of
\* the try block (lines 181-182), which holds all the stages.
DepoisDeLevantar(k) == FimMain

\* The call of stage k is made.
Chamada(k) ==
    /\ pc_main = k
    /\ executadas' = Append(executadas, k)

\* The call of stage k returned and main logged its line.
Retornou(k) ==
    /\ pc_main' = k + 1
    /\ levantou' = levantou
    /\ log_main' = Append(log_main, Concluida(k))

\* The call of stage k raised: main's handler logs the fatal error.
Levantou(k) ==
    /\ pc_main' = DepoisDeLevantar(k)
    /\ levantou' = k
    /\ log_main' = Append(log_main, ErroFatal)
    /\ UNCHANGED <<objetos, respostas, retornado5>>

FrameMain == UNCHANGED <<args, varsRes, varsPipe, varsMapa, varsLinhas, varsJusante,
                         varsDropna>>

\* Lines 81-88: escolher_cenario() and formular_hipotese(cenario), which
\* build their dicts from literals.
Etapa1e2 ==
    /\ \E k \in {1, 2} :
          /\ Chamada(k)
          /\ Retornou(k)
    /\ UNCHANGED <<objetos, respostas, retornado5>>
    /\ FrameMain

\* Line 95: respostas, questionario = coletar_dados(cenario), which raises
\* when the folder or a file is missing and otherwise returns the file read.
Etapa3 ==
    /\ Chamada(3)
    /\ \/ Levantou(3)
       \/ /\ \E e \in EntradasMain : objetos' = Append(objetos, e)
          /\ respostas' = Len(objetos) + 1
          /\ UNCHANGED retornado5
          /\ Retornou(3)
    /\ FrameMain

\* Line 110: respostas = preprocessar_dados(respostas, cenario), which works
\* on df.copy() (etapa04 line 36) and returns it.  The columns with no value at all, which it
\* drops, are not among those of the files studied.
Etapa4 ==
    /\ Chamada(4)
    /\ objetos' = Append(objetos, objetos[respostas])
    /\ respostas' = Len(objetos) + 1
    /\ UNCHANGED retornado5
    /\ Retornou(4)
    /\ FrameMain

\* Line 116: respostas = transformar_dados(respostas, cenario), which works
\* on df.copy() (etapa05 line 134), raises ValueError when no PISA column or
\* no target column is found, and otherwise returns the copy with the index
\* columns added.
Etapa5 ==
    /\ Chamada(5)
    /\ \E ds \in {objetos[respostas]} :
       \E nomes \in {NomesReais(ds.colunas)} :
          IF \/ ColunasParaMapear(nomes) = {}
             \/ IndiceAlvo \notin Elementos(ColunasPasso4(ds.colunas, nomes,
                                                          Len(IndicesPasso4)))
          THEN Levantou(5)
          ELSE /\ objetos' = Append(objetos, SaidaTransformar(ds, nomes))
               /\ respostas' = Len(objetos) + 1
               /\ retornado5' = [obj |-> Len(objetos) + 1,
                                 dataset |-> SaidaTransformar(ds, nomes)]
               /\ Retornou(5)
    /\ FrameMain

\* The columns stage 6 assigns (etapa06 lines 99-101).
ColunasMineracao == <<<<"pca1">>, <<"pca2">>, <<"cluster">>>>

RECURSIVE AtribuirNumericas(_, _)
\* df[c] = <floats> for each c of cs, in order.
AtribuirNumericas(ds, cs) ==
    IF cs = <<>>
    THEN ds
    ELSE AtribuirNumericas([colunas   |-> AtribuirColuna(ds.colunas, Head(cs)),
                            numericas |-> ds.numericas \cup {Head(cs)}],
                           Tail(cs))

\* Line 122: respostas, modelo_kmeans = minerar_dados(respostas).  It raises
\* ValueError when no row is complete in the numeric columns (etapa06 lines
\* 44-67); otherwise df_original = df (line 35) names the object it was
\* given, the three columns are assigned on that object (lines 99-106) and
\* the same object is returned.
Etapa6 ==
    /\ Chamada(6)
    /\ \/ Levantou(6)
       \/ /\ objetos' = [objetos EXCEPT ![respostas] =
                            AtribuirNumericas(@, ColunasMineracao)]
          /\ UNCHANGED <<respostas, retornado5>>
          /\ Retornou(6)
    /\ FrameMain

\* Lines 128, 140 and 146: ajustar_modelo(respostas),
\* refinar_conhecimento(modelo_ols, respostas) and
\* gerar_recomendacoes(cenario, modelo_ols, respostas) read the dataset and
\* either return or raise.
Etapas7e9e10 ==
    /\ \E k \in {7, 9, 10} :
          /\ Chamada(k)
          /\ \/ Levantou(k)
             \/ /\ Retornou(k)
                /\ UNCHANGED <<objetos, respostas, retornado5>>
    /\ FrameMain

\* Line 134: gerar_graficos(respostas), each of whose blocks catches its own
\* exceptions.
Etapa8 ==
    /\ Chamada(8)
    /\ Retornou(8)
    /\ UNCHANGED <<objetos, respostas, retornado5>>
    /\ FrameMain

\* The last line of a finished run (line 179).
Finalizada == Linha("info", 0, "Execucao finalizada com sucesso")

\* Lines 152-179: stage 11 is skipped with --no-llm, skipped with a warning
\* when its module could not be imported, and otherwise called inside its own
\* try: a text, an empty text or an exception, the last two logged as
\* warnings.  The closing line is logged on every one of these paths.
Etapa11 ==
    /\ pc_main = 11
    /\ \/ /\ args.no_llm
          /\ log_main' = log_main \o <<Linha("info", 11, "ignorada"), Finalizada>>
          /\ UNCHANGED executadas
       \/ /\ ~args.no_llm
          /\ ~args.ETAPA11_DISPONIVEL
          /\ log_main' = log_main \o <<Linha("aviso", 11, "nao disponivel"), Finalizada>>
          /\ UNCHANGED executadas
       \/ /\ ~args.no_llm
          /\ args.ETAPA11_DISPONIVEL
          /\ executadas' = Append(executadas, 11)
          /\ \E saida \in {Concluida(11), Linha("aviso", 11, "texto vazio"),
                           Linha("aviso", 11, "nao executada")} :
                log_main' = log_main \o <<saida, Finalizada>>
    /\ pc_main' = FimMain
    /\ UNCHANGED <<levantou, objetos, respostas, retornado5>>
    /\ FrameMain

NextMain ==
    \/ Etapa1e2
    \/ Etapa3
    \/ Etapa4
    \/ Etapa5
    \/ Etapa6
    \/ Etapas7e9e10
    \/ Etapa8
    \/ Etapa11

SpecMain == InitMain /\ [][NextMain]_vars

\* ------------------------------------------------------- claims on main

\* C25: once transformar_dados has returned, the object it returned keeps
\* the columns it had then, whatever stage runs afterwards.
DatasetSoLidoAposEtapa5 ==
    retornado5.obj # 0 => objetos[retornado5.obj] = retornado5.dataset

\* What holds instead: transformar_dados leaves the object it was given as it
\* was, and the object it returned only ever gains the three columns of the
\* mining stage, once that stage has returned.
DatasetGanhaColunasDaMineracao ==
    retornado5.obj # 0 =>
        /\ objetos[retornado5.obj - 1] = objetos[retornado5.obj - 2]
        /\ objetos[retornado5.obj] =
              IF pc_main \in 1..6 \/ levantou = 6
              THEN retornado5.dataset
              ELSE AtribuirNumericas(retornado5.dataset, ColunasMineracao)

\* The numbers 1..n in order.
Ate(n) == [i \in 1..n |-> i]

====
